---------------------------- MODULE DashboardProofs ----------------------------
(***************************************************************************)
(* What is proved of Dashboard, for any names, looks, terminal sizes and   *)
(* bounds.                                                                 *)
(***************************************************************************)
EXTENDS Dashboard, FiniteSetTheorems, SequenceTheorems, TLAPS

-----------------------------------------------------------------------------
(* The visible list.                                                       *)

SortKeys == {"id", "name", "cpu", "ram", "restarts"}

\* A process list of the daemon: no two processes have the same id.
Listing(procs) ==
    /\ procs \subseteq Process
    /\ \A p, q \in procs : p.id = q.id => p = q

\* Ids are bounded, so a list is finite.
LEMMA ListingFinite ==
    ASSUME NEW procs, Listing(procs)
    PROVE  IsFiniteSet(procs)
<1> DEFINE f == [p \in procs |-> p.id]
<1>1. MaxId \in Nat
  BY DashboardAssumption
<1>2. \A p \in procs : p.id \in 1 .. MaxId
  BY DEF Listing, Process
<1>3. f \in [procs -> 1 .. MaxId] /\ \A p, q \in procs : f[p] = f[q] => p = q
  BY <1>2 DEF Listing
<1> HIDE DEF f
<1>4. f \in Injection(procs, 1 .. MaxId)
  BY <1>3 DEF Injection, IsInjective
<1>5. IsFiniteSet(1 .. MaxId)
  BY <1>1, FS_Interval
<1> QED
  BY <1>4, <1>5, FS_Injection

\* There is an order of the names, however many there are.
LEMMA NamesOrdered ==
    /\ \A n \in Names : NameOrder[n] \in Nat
    /\ \A m, n \in Names : NameOrder[m] = NameOrder[n] => m = n
<1>1. IsFiniteSet(Names) /\ Cardinality(Names) \in Nat
  BY DashboardAssumption, FS_CardinalityType
<1> DEFINE size1 == Cardinality(Names)
           Order(f) == \A m, n \in Names : f[m] = f[n] => m = n
<1>2. IsFiniteSet(1 .. size1) /\ Cardinality(1 .. size1) = size1
  BY <1>1, FS_Interval
<1>3. ExistsBijection(Names, 1 .. size1)
  BY <1>1, <1>2, FS_SameCardinalityBij
<1>4. \E f \in [Names -> 1 .. size1] : Order(f)
  BY <1>3 DEF ExistsBijection, Bijection, Injection, IsInjective
<1>5. NameOrder = CHOOSE f \in [Names -> 1 .. size1] : Order(f)
  BY DEF NameOrder
<1>6. NameOrder \in [Names -> 1 .. size1] /\ Order(NameOrder)
  BY <1>4, <1>5
<1> QED
  BY <1>1, <1>6

\* Whatever it is sorted by, the order is strict and total: ids break the ties.
LEMMA PrecedesIsTotal ==
    ASSUME NEW procs, Listing(procs), NEW sort \in SortKeys,
           NEW p \in procs, NEW q \in procs, NEW r \in procs
    PROVE  /\ ~Precedes(p, p, sort)
           /\ Precedes(p, q, sort) /\ Precedes(q, r, sort) => Precedes(p, r, sort)
           /\ p # q => Precedes(p, q, sort) \/ Precedes(q, p, sort)
<1>1. \A x \in procs : x.id \in Nat /\ x.name \in Names /\ x.look \in Looks
  BY DashboardAssumption DEF Listing, Process
<1>2. p.id = q.id => p = q
  BY DEF Listing
<1>3. CASE sort = "id"
  BY <1>1, <1>2, <1>3 DEF Precedes
<1>4. CASE sort = "name"
  <2>1. \A x \in procs : NameOrder[x.name] \in Nat
    BY <1>1, NamesOrdered
  <2>2. \A x, y \in procs : Precedes(x, y, sort) <=>
          \/ NameOrder[x.name] < NameOrder[y.name]
          \/ x.name = y.name /\ x.id < y.id
    BY <1>4 DEF Precedes
  <2>3. \A x, y \in procs : NameOrder[x.name] = NameOrder[y.name] => x.name = y.name
    BY <1>1, NamesOrdered
  <2> QED
    BY <1>1, <1>2, <2>1, <2>2, <2>3
<1>5. CASE sort \notin {"id", "name"}
  <2>1. \A x \in procs : x.look[sort] \in Nat
    <3>1. \A l \in Looks : l.cpu \in Nat /\ l.ram \in Nat /\ l.restarts \in Nat
      BY DashboardAssumption
    <3>2. CASE sort = "cpu"
      BY <1>1, <3>1, <3>2
    <3>3. CASE sort = "ram"
      BY <1>1, <3>1, <3>3
    <3>4. CASE sort = "restarts"
      BY <1>1, <3>1, <3>4
    <3> QED
      BY <1>5, <3>2, <3>3, <3>4 DEF SortKeys
  <2>2. \A x, y \in procs : Precedes(x, y, sort) <=>
          \/ x.look[sort] > y.look[sort]
          \/ x.look[sort] = y.look[sort] /\ x.id < y.id
    BY <1>5 DEF Precedes
  <2> QED
    BY <1>1, <1>2, <2>1, <2>2
<1> QED
  BY <1>3, <1>4, <1>5

\* The row of a process among those shown, counted from zero.
Rank(shown, sort, p) == Cardinality({q \in shown : Precedes(q, p, sort)})

\* The number of processes before it places each process, and every place is taken.
LEMMA RanksAreRows ==
    ASSUME NEW procs, Listing(procs), NEW sort \in SortKeys, NEW shown \in SUBSET procs
    PROVE  /\ Cardinality(shown) \in Nat
           /\ \A p \in shown : Rank(shown, sort, p) \in 0 .. (Cardinality(shown) - 1)
           /\ \A p, q \in shown :
                 Precedes(p, q, sort) => Rank(shown, sort, p) < Rank(shown, sort, q)
           /\ \A i \in 0 .. (Cardinality(shown) - 1) : \E p \in shown : Rank(shown, sort, p) = i
<1> DEFINE Before(p) == {q \in shown : Precedes(q, p, sort)}
           n == Cardinality(shown)
           rank == [p \in shown |-> Cardinality(Before(p))]
<1>1. IsFiniteSet(shown) /\ n \in Nat
  BY ListingFinite, FS_Subset, FS_CardinalityType
<1>2. \A p \in shown : IsFiniteSet(Before(p)) /\ Cardinality(Before(p)) \in Nat
  <2> TAKE p \in shown
  <2>1. Before(p) \in SUBSET shown
    OBVIOUS
  <2> HIDE DEF Before
  <2> QED
    BY <1>1, <2>1, FS_Subset, FS_CardinalityType
<1>3. ASSUME NEW p \in shown PROVE Cardinality(Before(p)) \in 0 .. (n - 1)
  <2>1. Before(p) \in SUBSET shown /\ p \notin Before(p)
    BY PrecedesIsTotal
  <2> HIDE DEF Before
  <2>2. Cardinality(Before(p)) <= n /\ Cardinality(Before(p)) # n
    BY <1>1, <2>1, FS_Subset
  <2> QED
    BY <1>1, <1>2, <2>2
<1>4. ASSUME NEW p \in shown, NEW q \in shown, Precedes(p, q, sort)
      PROVE  Cardinality(Before(p)) < Cardinality(Before(q))
  <2>1. Before(p) \in SUBSET Before(q)
    BY <1>4, PrecedesIsTotal
  <2>2. p \in Before(q) /\ p \notin Before(p)
    BY <1>4, PrecedesIsTotal
  <2> HIDE DEF Before
  <2>3. /\ Cardinality(Before(p)) <= Cardinality(Before(q))
        /\ Cardinality(Before(p)) # Cardinality(Before(q))
    BY <1>2, <2>1, <2>2, FS_Subset
  <2> QED
    BY <1>2, <2>3
<1>5. rank \in Injection(shown, 0 .. (n - 1))
  <2>1. rank \in [shown -> 0 .. (n - 1)]
    BY <1>3
  <2>2. ASSUME NEW p \in shown, NEW q \in shown, rank[p] = rank[q] PROVE p = q
    <3>1. Cardinality(Before(p)) = Cardinality(Before(q))
      BY <2>2
    <3>2. ~Precedes(p, q, sort) /\ ~Precedes(q, p, sort)
      <4> HIDE DEF Before
      <4> QED
        BY <1>2, <1>4, <3>1
    <3> QED
      BY <3>2, PrecedesIsTotal
  <2> HIDE DEF rank
  <2> QED
    BY <2>1, <2>2 DEF Injection, IsInjective
<1>6. IsFiniteSet(0 .. (n - 1)) /\ Cardinality(0 .. (n - 1)) = n
  <2> HIDE DEF n
  <2>1. n - 1 \in Int
    BY <1>1
  <2> QED
    BY <1>1, <2>1, FS_Interval
<1>7. rank \in Surjection(shown, 0 .. (n - 1))
  <2>1. Cardinality(shown) = Cardinality(0 .. (n - 1))
    BY <1>6
  <2> HIDE DEF rank
  <2> QED
    BY <1>5, <1>6, <2>1, FS_Injection
<1>8. ASSUME NEW i \in 0 .. (n - 1) PROVE \E p \in shown : Cardinality(Before(p)) = i
  <2>1. PICK p \in shown : rank[p] = i
    <3> HIDE DEF rank
    <3> QED
      BY <1>7, <1>8 DEF Surjection
  <2> QED
    BY <2>1
<1>9. \A p : Rank(shown, sort, p) = Cardinality(Before(p))
  BY DEF Rank
<1> HIDE DEF Before
<1> QED
  BY <1>1, <1>3, <1>4, <1>8, <1>9

Shown(procs, s) == {p \in procs : Matches(p, s.filter) /\ MatchesQuery(p, s.query)}

\* Whatever the filter, the query and the order, the list shows each matching process in
\* one row, shows nothing else, and shows them in order.
THEOREM ListsEachOnce ==
    ASSUME NEW procs, Listing(procs), NEW s \in State
    PROVE  LET rows == Visible(procs, s) IN
               /\ Len(rows) \in Nat /\ rows \in Seq(Shown(procs, s))
               /\ \A p \in Shown(procs, s) : \E i \in 1 .. Len(rows) : rows[i] = p
               /\ \A i, j \in 1 .. Len(rows) : i < j => Precedes(rows[i], rows[j], s.sort)
               /\ \A i, j \in 1 .. Len(rows) : rows[i] = rows[j] => i = j
<1> DEFINE rows  == Visible(procs, s)
           shown == Shown(procs, s)
           Place(p) == Rank(shown, s.sort, p)
           n     == Cardinality(shown)
<1>1. s.sort \in SortKeys /\ shown \in SUBSET procs
  BY DEF State, SortKeys, Shown
<1>2. rows = [i \in 1 .. n |-> CHOOSE p \in shown : Place(p) = i - 1]
  BY DEF Visible, Rank, Shown
<1> HIDE DEF rows, shown
<1>3. /\ n \in Nat
      /\ \A p \in shown : Place(p) \in 0 .. (n - 1)
      /\ \A p, q \in shown : Precedes(p, q, s.sort) => Place(p) < Place(q)
      /\ \A i \in 0 .. (n - 1) : \E p \in shown : Place(p) = i
  BY <1>1, RanksAreRows
<1> HIDE DEF n, Place
<1>4. ASSUME NEW i \in 1 .. n PROVE rows[i] \in shown /\ Place(rows[i]) = i - 1
  <2>1. i - 1 \in 0 .. (n - 1)
    BY <1>3
  <2>2. \E p \in shown : Place(p) = i - 1
    BY <1>3, <2>1
  <2>3. rows[i] = CHOOSE p \in shown : Place(p) = i - 1
    BY <1>2
  <2> QED
    BY <2>2, <2>3
<1>5. rows \in [1 .. n -> shown] /\ rows \in Seq(shown) /\ Len(rows) = n
  <2>1. rows \in [1 .. n -> shown]
    BY <1>2, <1>4
  <2> QED
    BY <1>3, <2>1, LenProperties
<1>6. \A p, q \in shown : p = q \/ Precedes(p, q, s.sort) \/ Precedes(q, p, s.sort)
  BY <1>1, PrecedesIsTotal
<1>7. ASSUME NEW p \in shown PROVE \E i \in 1 .. n : rows[i] = p
  <2>1. Place(p) \in 0 .. (n - 1)
    BY <1>3
  <2>2. Place(p) + 1 \in 1 .. n /\ (Place(p) + 1) - 1 = Place(p)
    BY <1>3, <2>1
  <2>3. rows[Place(p) + 1] \in shown /\ Place(rows[Place(p) + 1]) = Place(p)
    BY <1>4, <2>2
  <2>4. rows[Place(p) + 1] = p
    <3>1. ~(Place(p) < Place(rows[Place(p) + 1])) /\ ~(Place(rows[Place(p) + 1]) < Place(p))
      BY <2>1, <2>3
    <3> QED
      BY <1>3, <1>6, <2>3, <3>1
  <2> QED
    BY <2>2, <2>4
<1>8. ASSUME NEW i \in 1 .. n, NEW j \in 1 .. n, i < j
      PROVE  Precedes(rows[i], rows[j], s.sort)
  <2>1. Place(rows[i]) < Place(rows[j]) /\ ~(Place(rows[j]) < Place(rows[i])) /\ rows[i] # rows[j]
    BY <1>3, <1>4, <1>8
  <2> QED
    BY <1>3, <1>4, <1>6, <2>1
<1>9. ASSUME NEW i \in 1 .. n, NEW j \in 1 .. n, rows[i] = rows[j] PROVE i = j
  <2>1. i - 1 = j - 1
    BY <1>4, <1>9
  <2> QED
    BY <1>3, <2>1
<1>10. /\ Len(rows) \in Nat /\ rows \in Seq(shown)
       /\ \A p \in shown : \E i \in 1 .. Len(rows) : rows[i] = p
       /\ \A i, j \in 1 .. Len(rows) : i < j => Precedes(rows[i], rows[j], s.sort)
       /\ \A i, j \in 1 .. Len(rows) : rows[i] = rows[j] => i = j
  BY <1>3, <1>5, <1>7, <1>8, <1>9
<1> QED
  BY <1>10 DEF rows, shown

\* The rows depend on the filter, the query and the order alone.
LEMMA SameRows ==
    ASSUME NEW procs, NEW s, NEW t,
           t.filter = s.filter, t.query = s.query, t.sort = s.sort
    PROVE  Visible(procs, t) = Visible(procs, s)
  BY DEF Visible

\* The rows are processes, and the selected one, if any, has a name.
LEMMA RowsTyped ==
    ASSUME NEW procs, Listing(procs), NEW s \in State
    PROVE  /\ Len(Visible(procs, s)) \in Nat /\ Visible(procs, s) \in Seq(Process)
           /\ Target(procs, s) \in Names \cup {NONE}
<1> DEFINE rows  == Visible(procs, s)
           shown == Shown(procs, s)
<1>1. Len(rows) \in Nat /\ rows \in Seq(shown) /\ shown \subseteq Process
  <2>1. Shown(procs, s) \subseteq Process
    BY DEF Shown, Listing
  <2> QED
    BY <2>1, ListsEachOnce
<1> HIDE DEF rows, shown
<1>2. rows \in Seq(Process) /\ \A i \in 1 .. Len(rows) : rows[i] \in Process
  <2>1. \A i \in 1 .. Len(rows) : rows[i] \in Process
    BY <1>1, ElementOfSeq
  <2>2. rows \in [1 .. Len(rows) -> Process]
    BY <1>1, <2>1, LenProperties
  <2> QED
    BY <1>1, <2>1, <2>2
<1>3. s.selected \in Nat
  BY DEF State
<1>4. s.selected < Len(rows) => rows[s.selected + 1].name \in Names
  <2> HAVE s.selected < Len(rows)
  <2>1. s.selected + 1 \in 1 .. Len(rows)
    BY <1>1, <1>3
  <2> QED
    BY <1>2, <2>1 DEF Process
<1> QED
  BY <1>1, <1>2, <1>4 DEF Target, rows

-----------------------------------------------------------------------------
(* The state of the loop.                                                  *)

Short(s) ==
    /\ Len(s.query) <= MaxText
    /\ s.form # NONE => Len(s.form.command) <= MaxText /\ Len(s.form.name) <= MaxText

InList(s, procs) == s.selected < High(1, Len(Visible(procs, s)))

\* The dialog and the log viewer are never open together.
Apart(s) == s.confirm # NONE => s.viewer = NONE

Neat(s, procs) == s \in State /\ Short(s) /\ InList(s, procs) /\ Apart(s)

\* Clamping brings any selection into the list, and changes nothing else.
LEMMA ClampedNeat ==
    ASSUME NEW procs, Listing(procs), NEW s \in State, Short(s), Apart(s)
    PROVE  /\ Neat(Clamped(s, procs), procs)
           /\ Clamped(s, procs) = [s EXCEPT !.selected = Clamped(s, procs).selected]
<1>n. PICK n : n = Len(Visible(procs, s))
  OBVIOUS
<1>1. n \in Nat /\ s.selected \in Nat
  BY <1>n, RowsTyped DEF State
<1>k. PICK k : k = IF n = 0 THEN 0 ELSE Low(s.selected, n - 1)
  OBVIOUS
<1>2. Clamped(s, procs) = [s EXCEPT !.selected = k]
  BY <1>n, <1>k DEF Clamped
<1>3. k \in Nat /\ k < High(1, n)
  BY <1>1, <1>k DEF Low, High
<1>t. PICK t : t = [s EXCEPT !.selected = k]
  OBVIOUS
<1>4. /\ t \in State /\ t.selected = k /\ t.filter = s.filter /\ t.query = s.query
      /\ t.sort = s.sort /\ t.form = s.form /\ t.confirm = s.confirm /\ t.viewer = s.viewer
  BY <1>3, <1>t DEF State
<1>5. Visible(procs, t) = Visible(procs, s)
  BY <1>4, SameRows
<1>6. Neat(t, procs)
  BY <1>3, <1>4, <1>5, <1>n DEF Neat, Short, InList, Apart
<1> QED
  BY <1>2, <1>4, <1>6, <1>t

\* A change that leaves the rows and the selection alone.
LEMMA NeatStays ==
    ASSUME NEW procs, NEW s, Neat(s, procs), NEW t \in State, Short(t), Apart(t),
           t.selected = s.selected, t.filter = s.filter, t.query = s.query, t.sort = s.sort
    PROVE  Neat(t, procs)
<1>1. Visible(procs, t) = Visible(procs, s)
  BY SameRows
<1> QED
  BY <1>1 DEF Neat, InList

\* A flash is of no consequence.
LEMMA FlashNeat ==
    ASSUME NEW procs, NEW s, Neat(s, procs), NEW f \in {"none", "info", "error"}
    PROVE  Neat([s EXCEPT !.flash = f], procs)
<1>t. PICK t : t = [s EXCEPT !.flash = f]
  OBVIOUS
<1>1. s \in State /\ Short(s) /\ Apart(s)
  BY DEF Neat
<1>2. /\ t \in State /\ t.selected = s.selected /\ t.filter = s.filter /\ t.query = s.query
      /\ t.sort = s.sort /\ t.form = s.form /\ t.confirm = s.confirm /\ t.viewer = s.viewer
  BY <1>1, <1>t DEF State
<1>3. Short(t) /\ Apart(t)
  BY <1>1, <1>2 DEF Short, Apart
<1> QED
  BY <1>2, <1>3, <1>t, NeatStays

-----------------------------------------------------------------------------
(* The log viewer.                                                         *)

\* A terminal of any size gives the log a number of rows.
LEMMA RowsOfTheViewer == size \in Sizes => ViewerRows \in Nat /\ Page \in Nat
  BY DashboardAssumption DEF ViewerRows, Page, High, Less

\* Scrolling, reading anew and switching the stream keep the viewer's place in bounds.
LEMMA ViewerStays ==
    ASSUME size \in Sizes, NEW v \in Viewer
    PROVE  /\ MaxScroll(v) \in Lines
           /\ ToBottom(v) \in Viewer /\ ClampScroll(v) \in Viewer /\ OtherSource(v) \in Viewer
           /\ \A n \in Nat : ScrolledBy(v, n) \in Viewer /\ ScrolledUp(v, n) \in Viewer
           /\ [v EXCEPT !.scroll = 0] \in Viewer
           /\ \A out, err \in Lines : Reloaded(v, out, err) \in Viewer
<1>1. MaxLines \in Nat /\ ViewerRows \in Nat
  BY DashboardAssumption, RowsOfTheViewer
<1>2. \A w \in Viewer : MaxScroll(w) \in Lines
  BY <1>1 DEF MaxScroll, Current, Less, Viewer, Lines
<1>3. \A w \in Viewer : \A k \in Lines : [w EXCEPT !.scroll = k] \in Viewer
  BY DEF Viewer
<1>4. \A w \in Viewer : \A src \in {"stdout", "stderr"} : [w EXCEPT !.source = src] \in Viewer
  BY DEF Viewer
<1>5. \A w \in Viewer : ToBottom(w) \in Viewer
  BY <1>2, <1>3 DEF ToBottom
<1>6. OtherSource(v) \in Viewer
  BY <1>4, <1>5 DEF OtherSource
<1>7. v.scroll \in Lines
  BY DEF Viewer
<1>8. ASSUME NEW n \in Nat PROVE ScrolledBy(v, n) \in Viewer /\ ScrolledUp(v, n) \in Viewer
  <2>1. Low(v.scroll + n, MaxScroll(v)) \in Lines /\ Less(v.scroll, n) \in Lines
    BY <1>1, <1>2, <1>7 DEF Low, Less, Lines
  <2> QED
    BY <1>3, <2>1 DEF ScrolledBy, ScrolledUp
<1>9. ClampScroll(v) \in Viewer
  <2>1. Low(v.scroll, MaxScroll(v)) \in Lines
    BY <1>2, <1>7 DEF Low
  <2> QED
    BY <1>3, <2>1 DEF ClampScroll
<1>10. 0 \in Lines
  BY <1>1 DEF Lines
<1>11. ASSUME NEW out \in Lines, NEW err \in Lines PROVE Reloaded(v, out, err) \in Viewer
  <2>e. PICK e : e = IF v.unified THEN 0 ELSE err
    OBVIOUS
  <2>c. PICK c : c = IF v.unified THEN "stdout" ELSE v.source
    OBVIOUS
  <2>r. PICK read : read = [v EXCEPT !.out = out, !.err = e, !.source = c]
    OBVIOUS
  <2>1. e \in Lines /\ c \in {"stdout", "stderr"}
    BY <1>10, <2>e, <2>c DEF Viewer
  <2>2. read \in Viewer
    BY <2>1, <2>r DEF Viewer
  <2>3. Reloaded(v, out, err) \in {read, [read EXCEPT !.source = "stdout"]}
    BY <2>e, <2>c, <2>r DEF Reloaded
  <2> QED
    BY <1>4, <2>2, <2>3
<1> QED
  BY <1>2, <1>3, <1>5, <1>6, <1>8, <1>9, <1>10, <1>11

\* A log viewer opens in its bounds, whatever the log files hold.
LEMMA ViewersTyped == ASSUME size \in Sizes, NEW n \in Names PROVE Viewers(n) \subseteq Viewer
<1> SUFFICES ASSUME NEW v \in Viewers(n) PROVE v \in Viewer
  OBVIOUS
<1>1. PICK u \in BOOLEAN, out \in Lines, err \in Lines : v = FromLogs(n, u, out, err)
  BY DEF Viewers
<1>b. PICK blank : blank = [name |-> n, unified |-> u, out |-> 0, err |-> 0,
                            source |-> "stderr", scroll |-> 0]
  OBVIOUS
<1>2. blank \in Viewer
  BY <1>b, DashboardAssumption DEF Viewer, Lines
<1>r. PICK read : read = Reloaded(blank, out, err)
  OBVIOUS
<1>3. read \in Viewer
  BY <1>2, <1>r, ViewerStays
<1>w. PICK w : w = [read EXCEPT !.source = IF out > 0 THEN "stdout" ELSE "stderr"]
  OBVIOUS
<1>4. w \in Viewer
  BY <1>3, <1>w DEF Viewer
<1>5. v = ToBottom(w)
  BY <1>1, <1>b, <1>r, <1>w DEF FromLogs
<1> QED
  BY <1>4, <1>5, ViewerStays

-----------------------------------------------------------------------------
(* The daemon's processes.                                                 *)

\* No id is given twice.
Registered(procs, next) ==
    /\ Listing(procs) /\ next \in 1 .. MaxId + 1
    /\ \A p \in procs : p.id < next

\* Deleting a process leaves the others' ids alone.
LEMMA RemovedRegistered ==
    ASSUME Registered(table, nextId), NEW n
    PROVE  Registered(table \ Named(table, n), nextId)
  BY DEF Registered, Listing

\* So does changing what it shows.
LEMMA RelookedRegistered ==
    ASSUME Registered(table, nextId), NEW n, NEW looks \in SUBSET Looks,
           NEW t \in Relooked(n, looks)
    PROVE  Registered(t, nextId)
<1>1. PICK l \in looks :
        t = (table \ Named(table, n)) \cup {[p EXCEPT !.look = l] : p \in Named(table, n)}
  BY DEF Relooked
<1>2. \A p \in table : p \in Process /\ p.id < nextId
  BY DEF Registered, Listing
<1>3. \A p \in Process : [p EXCEPT !.look = l] \in Process /\ [p EXCEPT !.look = l].id = p.id
  BY DEF Process
<1>4. ASSUME NEW q \in t
      PROVE  q \in Process /\ q.id < nextId
             /\ \E p \in table : q.id = p.id /\ (p \in Named(table, n) => q = [p EXCEPT !.look = l])
                                            /\ (p \notin Named(table, n) => q = p)
  <2>1. CASE q \in table \ Named(table, n)
    BY <1>2, <2>1
  <2>2. CASE q \notin table \ Named(table, n)
    <3>1. PICK p \in Named(table, n) : q = [p EXCEPT !.look = l]
      BY <1>1, <2>2
    <3>2. p \in table
      BY DEF Named
    <3> QED
      BY <1>2, <1>3, <3>1, <3>2
  <2> QED
    BY <2>1, <2>2
<1>5. ASSUME NEW q \in t, NEW r \in t, q.id = r.id PROVE q = r
  <2>1. PICK p \in table : q.id = p.id /\ (p \in Named(table, n) => q = [p EXCEPT !.look = l])
                           /\ (p \notin Named(table, n) => q = p)
    BY <1>4
  <2>2. PICK o \in table : r.id = o.id /\ (o \in Named(table, n) => r = [o EXCEPT !.look = l])
                           /\ (o \notin Named(table, n) => r = o)
    BY <1>4
  <2>3. p = o
    BY <1>5, <2>1, <2>2 DEF Registered, Listing
  <2> QED
    BY <2>1, <2>2, <2>3
<1> QED
  BY <1>4, <1>5 DEF Registered, Listing

\* A process that is started is given an id no other has.
LEMMA StartedRegistered ==
    ASSUME Registered(table, nextId), nextId <= MaxId, NEW names \in SUBSET Names,
           NEW t \in Started(names)
    PROVE  Registered(t, nextId + 1)
<1>1. PICK n \in Names, l \in Looks : t = table \cup {[id |-> nextId, name |-> n, look |-> l]}
  BY DEF Started, Status
<1>2. MaxId \in Nat /\ nextId \in 1 .. MaxId
  BY DashboardAssumption DEF Registered
<1>p. PICK p : p = [id |-> nextId, name |-> n, look |-> l]
  OBVIOUS
<1>3. p \in Process /\ p.id = nextId
  BY <1>2, <1>p DEF Process
<1>4. \A q \in table : q \in Process /\ q.id < nextId /\ q.id \in Nat
  BY <1>2 DEF Registered, Listing, Process
<1>5. \A q \in t : q \in Process /\ q.id < nextId + 1
  BY <1>1, <1>2, <1>3, <1>4, <1>p
<1>6. ASSUME NEW q \in t, NEW r \in t, q.id = r.id PROVE q = r
  <2>1. CASE q = p \/ r = p
    BY <1>1, <1>2, <1>3, <1>4, <1>6, <1>p, <2>1
  <2>2. CASE q # p /\ r # p
    BY <1>1, <1>6, <1>p, <2>2 DEF Registered, Listing
  <2> QED
    BY <2>1, <2>2
<1> QED
  BY <1>2, <1>5, <1>6 DEF Registered, Listing

-----------------------------------------------------------------------------
(* The invariant.                                                          *)

\* Between drawing and the end of the input's handler, the frame shows the state as it is.
Fresh ==
    /\ pc = "input" => ~redraw
    /\ pc # "done" /\ ~redraw => frame = Frame(processes)

DashboardInv ==
    /\ Registered(table, nextId)
    /\ changes \in 0 .. MaxChanges
    /\ size \in Sizes
    /\ Listing(processes)
    /\ Neat(state, processes)
    /\ pc \in {"top", "draw", "input", "done"}
    /\ redraw \in BOOLEAN /\ refresh \in BOOLEAN
    /\ events \in 0 .. MaxEvents
    /\ Fresh

\* What a handler leaves behind: an ordinary state, and a frame that is drawn anew
\* unless nothing it shows has changed.
Handled ==
    /\ Registered(table', nextId') /\ changes' = changes
    /\ Neat(state', processes)
    /\ size' \in Sizes
    /\ pc' \in {"top", "done"}
    /\ redraw' \in BOOLEAN /\ refresh' \in BOOLEAN
    /\ pc' = "done" \/ redraw' = TRUE \/ (redraw' = redraw /\ UNCHANGED <<state, size>>)

\* A handler ends in one of four ways.
LEMMA HandlerEnds ==
    ASSUME DashboardInv, Repaint \/ Renew \/ Ignore \/ Exit,
           Neat(state', processes), Registered(table', nextId'), changes' = changes
    PROVE  Handled
  BY DEF DashboardInv, Repaint, Renew, Ignore, Exit, Handled, loop

\* A handler that asks for nothing leaves the daemon alone.
LEMMA SilentHandlerEnds ==
    ASSUME DashboardInv, Repaint \/ Renew \/ Ignore \/ Exit, Silently,
           Neat(state', processes) \/ UNCHANGED state
    PROVE  Handled
<1>1. table' = table /\ nextId' = nextId /\ changes' = changes
  BY DEF Silently, daemon
<1>2. Registered(table', nextId') /\ Neat(state', processes)
  BY <1>1 DEF DashboardInv
<1> QED
  BY <1>1, <1>2, HandlerEnds

\* A request changes the daemon's processes as one of its other clients would.
LEMMA AskedOnce ==
    ASSUME DashboardInv,
           NEW verb \in {"delete", "stop", "restart", "reload", "pull", "logs"},
           NEW n, NEW ok, NEW err, Ask(verb, n, ok, err)
    PROVE  /\ Registered(table', nextId') /\ changes' = changes
           /\ asked' = Request(verb, n) /\ (state' \in ok \/ state' = err)
<1>1. /\ nextId' = nextId /\ changes' = changes /\ asked' = Request(verb, n)
      /\ state' \in ok \/ state' = err
      /\ table' = table \/ table' \in Outcomes(verb, n)
  BY DEF Ask
<1>2. Registered(table, nextId)
  BY DEF DashboardInv
<1>3. ASSUME NEW ls, table' \in Relooked(n, Status(ls)) PROVE Registered(table', nextId)
  <2>1. Status(ls) \in SUBSET Looks
    BY DEF Status
  <2> QED
    BY <1>2, <1>3, <2>1, RelookedRegistered
<1>4. ASSUME table' \in Outcomes(verb, n) PROVE Registered(table', nextId)
  <2>1. CASE verb = "delete"
    BY <1>2, <1>4, <2>1, RemovedRegistered DEF Outcomes
  <2>2. CASE verb = "stop"
    BY <1>3, <1>4, <2>2 DEF Outcomes
  <2>3. CASE verb \in {"restart", "reload"}
    BY <1>3, <1>4, <2>3 DEF Outcomes
  <2>4. CASE verb = "pull"
    BY <1>2, <1>3, <1>4, <2>4 DEF Outcomes
  <2>5. CASE verb = "logs"
    BY <1>2, <1>4, <2>5 DEF Outcomes
  <2> QED
    BY <2>1, <2>2, <2>3, <2>4, <2>5
<1> QED
  BY <1>1, <1>2, <1>4

-----------------------------------------------------------------------------
(* What the handlers do to the state, one field at a time.                 *)

\* Opening and closing the prompt, the help and the menu.
LEMMA SwitchNeat ==
    ASSUME NEW s, Neat(s, processes)
    PROVE  /\ \A b \in BOOLEAN : /\ Neat([s EXCEPT !.searching = b], processes)
                                 /\ Neat([s EXCEPT !.help = b], processes)
                                 /\ Neat([s EXCEPT !.menu = b], processes)
           /\ \A c \in {"resume", "quit"} : Neat([s EXCEPT !.choice = c], processes)
           /\ Neat([s EXCEPT !.menu = TRUE, !.choice = "resume"], processes)
<1>0. s \in State /\ Short(s) /\ Apart(s)
  BY DEF Neat
<1>1. ASSUME NEW t \in State,
             t.selected = s.selected, t.filter = s.filter, t.query = s.query, t.sort = s.sort,
             t.form = s.form, t.confirm = s.confirm, t.viewer = s.viewer
      PROVE  Neat(t, processes)
  <2>1. Short(t) /\ Apart(t)
    BY <1>0, <1>1 DEF Short, Apart
  <2> QED
    BY <1>1, <2>1, NeatStays
<1>2. ASSUME NEW b \in BOOLEAN
      PROVE  /\ Neat([s EXCEPT !.searching = b], processes)
             /\ Neat([s EXCEPT !.help = b], processes)
             /\ Neat([s EXCEPT !.menu = b], processes)
  <2>1. Neat([s EXCEPT !.searching = b], processes)
    <3>t. PICK t : t = [s EXCEPT !.searching = b]
      OBVIOUS
    <3> QED
      BY <1>0, <1>1, <3>t DEF State
  <2>2. Neat([s EXCEPT !.help = b], processes)
    <3>t. PICK t : t = [s EXCEPT !.help = b]
      OBVIOUS
    <3> QED
      BY <1>0, <1>1, <3>t DEF State
  <2>3. Neat([s EXCEPT !.menu = b], processes)
    <3>t. PICK t : t = [s EXCEPT !.menu = b]
      OBVIOUS
    <3> QED
      BY <1>0, <1>1, <3>t DEF State
  <2> QED
    BY <2>1, <2>2, <2>3
<1>3. ASSUME NEW c \in {"resume", "quit"} PROVE Neat([s EXCEPT !.choice = c], processes)
  <2>t. PICK t : t = [s EXCEPT !.choice = c]
    OBVIOUS
  <2> QED
    BY <1>0, <1>1, <1>3, <2>t DEF State
<1>4. Neat([s EXCEPT !.menu = TRUE, !.choice = "resume"], processes)
  <2>t. PICK t : t = [s EXCEPT !.menu = TRUE, !.choice = "resume"]
    OBVIOUS
  <2> QED
    BY <1>0, <1>1, <2>t DEF State
<1> QED
  BY <1>2, <1>3, <1>4

\* A form within its bound, and a dialog or a viewer while the other is closed.
LEMMA OverlayNeat ==
    ASSUME NEW s, Neat(s, processes)
    PROVE  /\ Neat([s EXCEPT !.form = NONE], processes)
           /\ \A f \in Form : Len(f.command) <= MaxText /\ Len(f.name) <= MaxText =>
                 Neat([s EXCEPT !.form = f], processes)
           /\ Neat([s EXCEPT !.confirm = NONE], processes)
           /\ s.viewer = NONE => \A c \in Confirm : Neat([s EXCEPT !.confirm = c], processes)
           /\ Neat([s EXCEPT !.viewer = NONE], processes)
           /\ s.confirm = NONE => \A v \in Viewer : Neat([s EXCEPT !.viewer = v], processes)
<1>0. s \in State /\ Short(s) /\ Apart(s)
  BY DEF Neat
<1>1. ASSUME NEW f \in Form \cup {NONE},
             f # NONE => Len(f.command) <= MaxText /\ Len(f.name) <= MaxText
      PROVE  Neat([s EXCEPT !.form = f], processes)
  <2>t. PICK t : t = [s EXCEPT !.form = f]
    OBVIOUS
  <2>1. /\ t \in State /\ t.selected = s.selected /\ t.filter = s.filter /\ t.query = s.query
        /\ t.sort = s.sort /\ t.form = f /\ t.confirm = s.confirm /\ t.viewer = s.viewer
    BY <1>0, <2>t DEF State
  <2>2. Short(t) /\ Apart(t)
    BY <1>0, <1>1, <2>1 DEF Short, Apart
  <2> QED
    BY <2>t, <2>1, <2>2, NeatStays
<1>2. ASSUME NEW c \in Confirm \cup {NONE}, c # NONE => s.viewer = NONE
      PROVE  Neat([s EXCEPT !.confirm = c], processes)
  <2>t. PICK t : t = [s EXCEPT !.confirm = c]
    OBVIOUS
  <2>1. /\ t \in State /\ t.selected = s.selected /\ t.filter = s.filter /\ t.query = s.query
        /\ t.sort = s.sort /\ t.form = s.form /\ t.confirm = c /\ t.viewer = s.viewer
    BY <1>0, <2>t DEF State
  <2>2. Short(t) /\ Apart(t)
    BY <1>0, <1>2, <2>1 DEF Short, Apart
  <2> QED
    BY <2>t, <2>1, <2>2, NeatStays
<1>3. ASSUME NEW v \in Viewer \cup {NONE}, s.confirm # NONE => v = NONE
      PROVE  Neat([s EXCEPT !.viewer = v], processes)
  <2>t. PICK t : t = [s EXCEPT !.viewer = v]
    OBVIOUS
  <2>1. /\ t \in State /\ t.selected = s.selected /\ t.filter = s.filter /\ t.query = s.query
        /\ t.sort = s.sort /\ t.form = s.form /\ t.confirm = s.confirm /\ t.viewer = v
    BY <1>0, <2>t DEF State
  <2>2. Short(t) /\ Apart(t)
    BY <1>0, <1>3, <2>1 DEF Short, Apart
  <2> QED
    BY <2>t, <2>1, <2>2, NeatStays
<1>4. NONE \in Form \cup {NONE} /\ NONE \in Confirm \cup {NONE} /\ NONE \in Viewer \cup {NONE}
  OBVIOUS
<1> QED
  BY <1>1, <1>2, <1>3, <1>4

\* Another row of the list.
LEMMA SelectNeat ==
    ASSUME NEW s, Neat(s, processes), NEW k \in Nat, k < High(1, Len(Visible(processes, s)))
    PROVE  Neat([s EXCEPT !.selected = k], processes)
<1>t. PICK t : t = [s EXCEPT !.selected = k]
  OBVIOUS
<1>0. s \in State /\ Short(s) /\ Apart(s)
  BY DEF Neat
<1>1. /\ t \in State /\ t.selected = k /\ t.filter = s.filter /\ t.query = s.query
      /\ t.sort = s.sort /\ t.form = s.form /\ t.confirm = s.confirm /\ t.viewer = s.viewer
  BY <1>0, <1>t DEF State
<1>2. Visible(processes, t) = Visible(processes, s)
  BY <1>1, SameRows
<1> QED
  BY <1>0, <1>1, <1>2, <1>t DEF Neat, Short, InList, Apart

\* What is typed stays text, within its bound.
LEMMA TextStays ==
    ASSUME NEW S, NEW text \in Seq(S), Len(text) <= MaxText
    PROVE  /\ Shortened(text) \in Seq(S) /\ Len(Shortened(text)) <= MaxText
           /\ \A ch \in S : Typed(text, ch) \in Seq(S) /\ Len(Typed(text, ch)) <= MaxText
<1>0. MaxText \in Nat /\ Len(text) \in Nat
  BY DashboardAssumption, LenProperties
<1>k. PICK k : k = Less(Len(text), 1)
  OBVIOUS
<1>1. k \in Nat /\ k <= Len(text)
  BY <1>0, <1>k DEF Less
<1>2. SubSeq(text, 1, k) \in Seq(S) /\ Len(SubSeq(text, 1, k)) = k
  <2>1. \A i \in 1 .. k : text[i] \in S
    BY <1>0, <1>1, ElementOfSeq
  <2>2. 1 \in Int /\ k \in Int
    BY <1>1
  <2>3. SubSeq(text, 1, k) \in Seq(S) /\ Len(SubSeq(text, 1, k)) = IF 1 <= k THEN k - 1 + 1 ELSE 0
    BY <2>1, <2>2, SubSeqProperties
  <2> QED
    BY <1>1, <2>3
<1>3. ASSUME NEW ch \in S PROVE Typed(text, ch) \in Seq(S) /\ Len(Typed(text, ch)) <= MaxText
  <2>1. Append(text, ch) \in Seq(S) /\ Len(Append(text, ch)) = Len(text) + 1
    BY AppendProperties
  <2> QED
    BY <1>0, <2>1 DEF Typed
<1> QED
  BY <1>0, <1>1, <1>2, <1>3, <1>k DEF Shortened

-----------------------------------------------------------------------------
(* The handlers.                                                           *)

\* In DashboardInv, the parts of the state's type a handler reads.
LEMMA StateParts ==
    ASSUME DashboardInv
    PROVE  /\ state \in State /\ Short(state) /\ Apart(state) /\ Neat(state, processes)
           /\ Listing(processes) /\ size \in Sizes
           /\ state.form # NONE => /\ state.form \in Form
                                   /\ Len(state.form.command) <= MaxText
                                   /\ Len(state.form.name) <= MaxText
           /\ state.confirm # NONE => state.confirm \in Confirm
           /\ state.viewer # NONE => state.viewer \in Viewer
<1>1. state \in State /\ Short(state)
  BY DEF DashboardInv, Neat
<1> QED
  BY <1>1 DEF DashboardInv, Neat, Short, State

\* Typing in the search prompt.
LEMMA SearchKeyHandled == ASSUME DashboardInv, NEW k \in SearchKeys, SearchKey(k) PROVE Handled
<1>0. Silently /\ Repaint
  BY DEF SearchKey
<1>1. Neat(state, processes) /\ state \in State /\ Short(state) /\ Apart(state) /\ Listing(processes)
  BY StateParts
<1>2. state.query \in Seq(Names) /\ Len(state.query) <= MaxText
  BY <1>1 DEF State, Short
<1>k. Names \cap {"esc", "backspace", "delete"} = {}
  BY DashboardAssumption
<1>3. ASSUME NEW q \in Seq(Names), Len(q) <= MaxText
      PROVE  Neat(Clamped([state EXCEPT !.query = q], processes), processes)
  <2>t. PICK t : t = [state EXCEPT !.query = q]
    OBVIOUS
  <2>1. t \in State /\ t.query = q /\ t.form = state.form /\ t.confirm = state.confirm
        /\ t.viewer = state.viewer
    BY <1>1, <2>t DEF State
  <2>2. Short(t) /\ Apart(t)
    BY <1>1, <1>3, <2>1 DEF Short, Apart
  <2> QED
    BY <1>1, <2>t, <2>1, <2>2, ClampedNeat
<1>4. Neat(state', processes)
  <2>1. CASE k = "esc"
    <3>1. state' = [state EXCEPT !.searching = FALSE]
      BY <1>k, <2>1 DEF SearchKey
    <3> QED
      BY <1>1, <3>1, SwitchNeat
  <2>2. CASE k = "backspace"
    <3>1. state' = Clamped([state EXCEPT !.query = Shortened(state.query)], processes)
      BY <1>k, <2>2 DEF SearchKey
    <3> QED
      BY <1>2, <1>3, <3>1, TextStays
  <2>3. CASE k = "delete"
    <3>1. state' = Clamped([state EXCEPT !.query = <<>>], processes)
      BY <1>k, <2>3 DEF SearchKey
    <3>2. <<>> \in Seq(Names) /\ Len(<<>>) <= MaxText
      BY DashboardAssumption
    <3> QED
      BY <1>3, <3>1, <3>2
  <2>4. CASE k \notin {"esc", "backspace", "delete"}
    <3>1. k \in Names
      BY <2>4 DEF SearchKeys
    <3>2. state' = Clamped([state EXCEPT !.query = Typed(state.query, k)], processes)
      BY <1>k, <2>4, <3>1 DEF SearchKey
    <3> QED
      BY <1>2, <1>3, <3>1, <3>2, TextStays
  <2> QED
    BY <2>1, <2>2, <2>3, <2>4
<1> QED
  BY <1>0, <1>4, SilentHandlerEnds

\* Typing keeps a form within its bound.
LEMMA FormEdited ==
    ASSUME DashboardInv, Focus = "form", NEW k \in FormKeys, k # "enter", EditForm(k)
    PROVE  Neat(state', processes)
<1>f. PICK f : f = state.form
  OBVIOUS
<1>0. /\ Neat(state, processes) /\ f \in Form /\ f # NONE
      /\ Len(f.command) <= MaxText /\ Len(f.name) <= MaxText
  BY <1>f, StateParts DEF Focus
<1>t. PICK Texts : Texts = Seq(Names \cup {Space})
  OBVIOUS
<1>1. /\ f.command \in Texts /\ f.name \in Texts /\ f.active \in {"command", "name"}
      /\ f.error \in BOOLEAN
  BY <1>0, <1>t DEF Form
<1>2. CASE k = "esc"
  <2>1. state' = [state EXCEPT !.form = NONE]
    BY <1>2 DEF EditForm
  <2> QED
    BY <1>0, <2>1, OverlayNeat
<1>3. CASE k = "tab"
  <2>a. PICK a : a = IF f.active = "command" THEN "name" ELSE "command"
    OBVIOUS
  <2>g. PICK g : g = [f EXCEPT !.active = a, !.error = FALSE]
    OBVIOUS
  <2>1. state' = [state EXCEPT !.form = g]
    BY <1>3, <1>f, <2>a, <2>g DEF EditForm
  <2>2. g \in Form /\ g.command = f.command /\ g.name = f.name
    BY <1>0, <2>a, <2>g DEF Form
  <2> QED
    BY <1>0, <2>1, <2>2, OverlayNeat
<1>4. CASE k \notin {"esc", "tab"}
  <2>d. PICK Edited : Edited = [t \in Texts |-> IF k = "backspace" THEN Shortened(t) ELSE Typed(t, k)]
    OBVIOUS
  <2>1. k = "backspace" \/ k \in Names \cup {Space}
    BY <1>4 DEF FormKeys
  <2>2. \A t \in Texts : Len(t) <= MaxText => Edited[t] \in Texts /\ Len(Edited[t]) <= MaxText
    BY <1>t, <2>d, <2>1, TextStays
  <2>3. CASE f.active = "command"
    <3>g. PICK g : g = [f EXCEPT !.command = Edited[f.command], !.error = FALSE]
      OBVIOUS
    <3>1. state' = [state EXCEPT !.form = g]
      BY <1>1, <1>4, <1>f, <2>d, <2>3, <3>g DEF EditForm
    <3>2. Edited[f.command] \in Texts /\ Len(Edited[f.command]) <= MaxText
      BY <1>0, <1>1, <2>2
    <3>3. g \in Form /\ g.command = Edited[f.command] /\ g.name = f.name
      BY <1>0, <1>t, <3>g, <3>2 DEF Form
    <3> QED
      BY <1>0, <3>1, <3>2, <3>3, OverlayNeat
  <2>4. CASE f.active = "name"
    <3>g. PICK g : g = [f EXCEPT !.name = Edited[f.name], !.error = FALSE]
      OBVIOUS
    <3>1. state' = [state EXCEPT !.form = g]
      BY <1>1, <1>4, <1>f, <2>d, <2>4, <3>g DEF EditForm
    <3>2. Edited[f.name] \in Texts /\ Len(Edited[f.name]) <= MaxText
      BY <1>0, <1>1, <2>2
    <3>3. g \in Form /\ g.command = f.command /\ g.name = Edited[f.name]
      BY <1>0, <1>t, <3>g, <3>2 DEF Form
    <3> QED
      BY <1>0, <3>1, <3>2, <3>3, OverlayNeat
  <2> QED
    BY <1>1, <2>3, <2>4
<1> QED
  BY <1>2, <1>3, <1>4

\* A start that succeeds closes the form; one that fails leaves it open.
LEMMA FormSubmitted ==
    ASSUME DashboardInv, Focus = "form", SubmitForm
    PROVE  /\ Neat(state', processes) /\ Registered(table', nextId') /\ changes' = changes
           /\ asked' = NONE \/ asked' = Request("start", NONE)
<1>f. PICK f : f = state.form
  OBVIOUS
<1>0. /\ Neat(state, processes) /\ f \in Form /\ f # NONE /\ state \in State
      /\ Len(f.command) <= MaxText /\ Len(f.name) <= MaxText /\ Registered(table, nextId)
  BY <1>f, StateParts DEF Focus, DashboardInv
<1>1. ASSUME state' = [state EXCEPT !.form.error = TRUE] PROVE Neat(state', processes)
  <2>g. PICK g : g = [f EXCEPT !.error = TRUE]
    OBVIOUS
  <2>1. state' = [state EXCEPT !.form = g]
    BY <1>1, <1>f, <2>g
  <2>2. g \in Form /\ g.command = f.command /\ g.name = f.name
    BY <1>0, <2>g DEF Form
  <2> QED
    BY <1>0, <2>1, <2>2, OverlayNeat
<1>2. CASE Blank(f.command)
  <2>1. state' = [state EXCEPT !.form.error = TRUE] /\ Silently
    BY <1>2, <1>f DEF SubmitForm
  <2>2. table' = table /\ nextId' = nextId /\ changes' = changes /\ asked' = NONE
    BY <2>1 DEF Silently, daemon
  <2> QED
    BY <1>0, <1>1, <2>1, <2>2
<1>3. CASE ~Blank(f.command)
  <2>n. PICK names : names = IF Blank(f.name) THEN Names ELSE {n \in Names : f.name = <<n>>}
    OBVIOUS
  <2>1. /\ asked' = Request("start", NONE) /\ changes' = changes
        /\ \/ /\ nextId <= MaxId /\ table' \in Started(names) /\ nextId' = nextId + 1
              /\ state' = Info([state EXCEPT !.form = NONE])
           \/ state' = [state EXCEPT !.form.error = TRUE] /\ table' = table /\ nextId' = nextId
    BY <1>3, <1>f, <2>n DEF SubmitForm
  <2>2. names \in SUBSET Names
    BY <2>n
  <2>3. CASE nextId' = nextId + 1 /\ table' \in Started(names) /\ nextId <= MaxId
             /\ state' = Info([state EXCEPT !.form = NONE])
    <3>1. Registered(table', nextId')
      BY <1>0, <2>2, <2>3, StartedRegistered
    <3>s. PICK s : s = [state EXCEPT !.form = NONE]
      OBVIOUS
    <3>2. Neat(s, processes)
      BY <1>0, <3>s, OverlayNeat
    <3>3. state' = [s EXCEPT !.flash = "info"]
      BY <2>3, <3>s DEF Info
    <3> QED
      BY <2>1, <3>1, <3>2, <3>3, FlashNeat
  <2>4. CASE state' = [state EXCEPT !.form.error = TRUE] /\ table' = table /\ nextId' = nextId
    BY <1>0, <1>1, <2>1, <2>4
  <2> QED
    BY <2>1, <2>3, <2>4
<1> QED
  BY <1>2, <1>3

\* Keys of the form.
LEMMA FormKeyHandled == ASSUME DashboardInv, NEW k \in FormKeys, FormKey(k) PROVE Handled
<1>1. CASE k = "enter"
  <2>1. Focus = "form" /\ SubmitForm /\ Renew
    BY <1>1 DEF FormKey
  <2> QED
    BY <2>1, FormSubmitted, HandlerEnds
<1>2. CASE k # "enter"
  <2>1. Focus = "form" /\ EditForm(k) /\ Silently /\ Repaint
    BY <1>2 DEF FormKey
  <2> QED
    BY <1>2, <2>1, FormEdited, SilentHandlerEnds
<1> QED
  BY <1>1, <1>2

\* The dialog closes, whatever is answered.
LEMMA DeleteHandled ==
    ASSUME DashboardInv, state.confirm # NONE, ConfirmDelete
    PROVE  Handled /\ asked' = Request("delete", state.confirm.target)
<1>c. PICK closed : closed = [state EXCEPT !.confirm = NONE]
  OBVIOUS
<1>1. Ask("delete", Doomed(state), {Info(closed)}, Error(closed)) /\ Renew
  BY <1>c DEF ConfirmDelete
<1>2. Neat(closed, processes)
  BY <1>c, StateParts, OverlayNeat
<1>3. Neat(Info(closed), processes) /\ Neat(Error(closed), processes)
  BY <1>2, FlashNeat DEF Info, Error
<1>4. /\ Registered(table', nextId') /\ changes' = changes /\ asked' = Request("delete", Doomed(state))
      /\ state' \in {Info(closed)} \/ state' = Error(closed)
  BY <1>1, AskedOnce
<1> QED
  BY <1>1, <1>3, <1>4, HandlerEnds DEF Doomed

\* Closing the dialog, or moving its choice.
LEMMA ConfirmHandled ==
    ASSUME DashboardInv, state.confirm # NONE,
           NEW c \in {"cancel", "delete"}, CloseConfirm \/ ChooseButton(c)
    PROVE  Handled
<1>1. CASE CloseConfirm
  <2>1. Neat(state', processes)
    BY <1>1, StateParts, OverlayNeat DEF CloseConfirm
  <2> QED
    BY <1>1, <2>1, SilentHandlerEnds DEF CloseConfirm
<1>2. CASE ChooseButton(c)
  <2>d. PICK d : d = [state.confirm EXCEPT !.choice = c]
    OBVIOUS
  <2>1. state' = [state EXCEPT !.confirm = d]
    BY <1>2, <2>d DEF ChooseButton
  <2>2. d \in Confirm /\ Neat(state, processes) /\ state.viewer = NONE
    BY <2>d, StateParts DEF Confirm, Apart
  <2>3. Neat(state', processes)
    BY <2>1, <2>2, OverlayNeat
  <2> QED
    BY <1>2, <2>3, SilentHandlerEnds DEF ChooseButton
<1> QED
  BY <1>1, <1>2

\* Keys of the dialog.
LEMMA ConfirmKeyHandled == ASSUME DashboardInv, NEW k \in ConfirmKeys, ConfirmKey(k) PROVE Handled
<1>1. state.confirm # NONE
  BY DEF ConfirmKey, Focus
<1>2. CloseConfirm \/ ChooseButton("cancel") \/ ChooseButton("delete") \/ ConfirmDelete
  BY DEF ConfirmKey, ConfirmKeys
<1> QED
  BY <1>1, <1>2, ConfirmHandled, DeleteHandled

\* Keys of the help.
LEMMA HelpKeyHandled == ASSUME DashboardInv, NEW k \in HelpKeys, HelpKey(k) PROVE Handled
<1>1. Silently /\ (Exit \/ (state' = [state EXCEPT !.help = FALSE] /\ Repaint))
  BY DEF HelpKey
<1>2. Exit => UNCHANGED state
  BY DEF Exit
<1> QED
  BY <1>1, <1>2, StateParts, SwitchNeat, SilentHandlerEnds

\* Keys of the menu.
LEMMA MenuKeyHandled == ASSUME DashboardInv, NEW k \in MenuKeys, MenuKey(k) PROVE Handled
<1>1. /\ Silently
      /\ \/ Exit
         \/ /\ Repaint
            /\ \/ state' = [state EXCEPT !.menu = FALSE]
               \/ \E c \in {"resume", "quit"} : state' = [state EXCEPT !.choice = c]
  BY DEF MenuKey
<1>2. Exit => UNCHANGED state
  BY DEF Exit
<1>3. Repaint => Neat(state', processes)
  BY <1>1, <1>2, StateParts, SwitchNeat DEF Repaint, Exit
<1> QED
  BY <1>1, <1>2, <1>3, SilentHandlerEnds

\* Keys of the log viewer.
LEMMA ViewerKeyHandled == ASSUME DashboardInv, NEW k \in ViewerKeys, ViewerKey(k) PROVE Handled
<1>v. PICK v : v = state.viewer
  OBVIOUS
<1>0. Silently /\ v # NONE
  BY <1>v DEF ViewerKey, Focus
<1>1. Neat(state, processes) /\ v \in Viewer /\ state.confirm = NONE /\ size \in Sizes
  BY <1>0, <1>v, StateParts DEF Apart
<1>2. Page \in Nat
  BY <1>1, RowsOfTheViewer
<1>3. \/ \E w \in Viewer \cup {NONE} : state' = [state EXCEPT !.viewer = w] /\ Repaint
      \/ \E b \in BOOLEAN : state' = [state EXCEPT !.help = b] /\ Repaint
      \/ Exit
  <2>1. CASE k \in {"esc", "l"}
    <3>1. state' = [state EXCEPT !.viewer = NONE] /\ Repaint
      BY <2>1 DEF ViewerKey
    <3> QED
      BY <3>1
  <2>2. CASE k \in {"up", "down", "pageup", "pagedown"}
    <3>1. \E n \in Nat : \E w \in {ScrolledUp(v, n), ScrolledBy(v, n)} :
             state' = [state EXCEPT !.viewer = w] /\ Repaint
      BY <1>2, <1>v, <2>2 DEF ViewerKey
    <3> QED
      BY <1>1, <3>1, ViewerStays
  <2>3. CASE k = "home"
    <3>1. state' = [state EXCEPT !.viewer = [v EXCEPT !.scroll = 0]] /\ Repaint
      BY <1>v, <2>3 DEF ViewerKey
    <3> QED
      BY <1>1, <3>1, ViewerStays
  <2>4. CASE k = "end"
    <3>1. state' = [state EXCEPT !.viewer = ToBottom(v)] /\ Repaint
      BY <1>v, <2>4 DEF ViewerKey
    <3> QED
      BY <1>1, <3>1, ViewerStays
  <2>5. CASE k = "tab"
    <3>1. state' = [state EXCEPT !.viewer = OtherSource(v)] /\ Repaint
      BY <1>v, <2>5 DEF ViewerKey
    <3> QED
      BY <1>1, <3>1, ViewerStays
  <2>6. CASE k = "g"
    <3>1. PICK out \in Lines, err \in Lines :
            state' = [state EXCEPT !.viewer = ClampScroll(Reloaded(v, out, err))] /\ Repaint
      BY <1>v, <2>6 DEF ViewerKey
    <3>2. Reloaded(v, out, err) \in Viewer
      BY <1>1, ViewerStays
    <3>3. ClampScroll(Reloaded(v, out, err)) \in Viewer
      BY <1>1, <3>2, ViewerStays
    <3> QED
      BY <3>1, <3>3
  <2>7. CASE k = "?"
    <3>1. state' = [state EXCEPT !.help = ~state.help] /\ Repaint
      BY <2>7 DEF ViewerKey
    <3> QED
      BY <3>1
  <2>8. CASE k = "q"
    BY <2>8 DEF ViewerKey
  <2> QED
    BY <2>1, <2>2, <2>3, <2>4, <2>5, <2>6, <2>7, <2>8 DEF ViewerKeys
<1>4. CASE \E w \in Viewer \cup {NONE} : state' = [state EXCEPT !.viewer = w] /\ Repaint
  <2>w. PICK w \in Viewer \cup {NONE} : state' = [state EXCEPT !.viewer = w] /\ Repaint
    BY <1>4
  <2>1. Neat([state EXCEPT !.viewer = w], processes)
    BY <1>1, OverlayNeat
  <2> QED
    BY <1>0, <2>w, <2>1, SilentHandlerEnds
<1>5. CASE \E b \in BOOLEAN : state' = [state EXCEPT !.help = b] /\ Repaint
  <2>w. PICK b \in BOOLEAN : state' = [state EXCEPT !.help = b] /\ Repaint
    BY <1>5
  <2>1. Neat([state EXCEPT !.help = b], processes)
    BY <1>1, SwitchNeat
  <2> QED
    BY <1>0, <2>w, <2>1, SilentHandlerEnds
<1>6. CASE Exit
  BY <1>0, <1>6, SilentHandlerEnds DEF Exit
<1> QED
  BY <1>3, <1>4, <1>5, <1>6

\* The next of a cycle is of the cycle.
LEMMA AfterCycles ==
    /\ \A x \in {"all", "running", "stopped", "unhealthy"} :
          After(Filters, x) \in {"all", "running", "stopped", "unhealthy"}
    /\ \A x \in SortKeys : After(Sorts, x) \in SortKeys
<1>1. ASSUME NEW x \in {"all", "running", "stopped", "unhealthy"}
      PROVE  After(Filters, x) \in {"all", "running", "stopped", "unhealthy"}
  <2>i. PICK i : i = CHOOSE j \in DOMAIN Filters : Filters[j] = x
    OBVIOUS
  <2>1. Len(Filters) = 4 /\ DOMAIN Filters = 1 .. 4
    BY DEF Filters
  <2>2. \E j \in 1 .. 4 : Filters[j] = x
    <3>1. Filters[1] = "all" /\ Filters[2] = "running" /\ Filters[3] = "stopped"
          /\ Filters[4] = "unhealthy"
      BY DEF Filters
    <3> QED
      BY <3>1
  <2>3. i \in 1 .. 4
    BY <2>i, <2>1, <2>2
  <2>4. (i % 4) + 1 \in 1 .. 4
    BY <2>3
  <2>5. \A j \in 1 .. 4 : Filters[j] \in {"all", "running", "stopped", "unhealthy"}
    BY DEF Filters
  <2> QED
    BY <2>i, <2>1, <2>4, <2>5 DEF After
<1>2. ASSUME NEW x \in SortKeys PROVE After(Sorts, x) \in SortKeys
  <2>i. PICK i : i = CHOOSE j \in DOMAIN Sorts : Sorts[j] = x
    OBVIOUS
  <2>1. Len(Sorts) = 5 /\ DOMAIN Sorts = 1 .. 5
    BY DEF Sorts
  <2>2. \E j \in 1 .. 5 : Sorts[j] = x
    <3>1. Sorts[1] = "id" /\ Sorts[2] = "name" /\ Sorts[3] = "cpu" /\ Sorts[4] = "ram"
          /\ Sorts[5] = "restarts"
      BY DEF Sorts
    <3> QED
      BY <3>1 DEF SortKeys
  <2>3. i \in 1 .. 5
    BY <2>i, <2>1, <2>2
  <2>4. (i % 5) + 1 \in 1 .. 5
    BY <2>3
  <2>5. \A j \in 1 .. 5 : Sorts[j] \in SortKeys
    BY DEF Sorts, SortKeys
  <2> QED
    BY <2>i, <2>1, <2>4, <2>5 DEF After
<1> QED
  BY <1>1, <1>2

\* Keys that move the selection stay in the list.
LEMMA MoveHandled ==
    ASSUME DashboardInv
    PROVE  /\ state.selected \in Nat
           /\ state.selected > 0 => Neat([state EXCEPT !.selected = state.selected - 1], processes)
           /\ CanMoveDown => Neat([state EXCEPT !.selected = state.selected + 1], processes)
<1>n. PICK n : n = Len(Visible(processes, state))
  OBVIOUS
<1>1. /\ n \in Nat /\ state.selected \in Nat /\ state.selected < High(1, n)
      /\ Neat(state, processes)
  BY <1>n, StateParts, RowsTyped DEF State, Neat, InList
<1>2. ASSUME state.selected > 0
      PROVE  Neat([state EXCEPT !.selected = state.selected - 1], processes)
  <2>k. PICK k : k = state.selected - 1
    OBVIOUS
  <2>1. k \in Nat /\ k < High(1, n)
    BY <1>1, <1>2, <2>k DEF High
  <2>2. Neat([state EXCEPT !.selected = k], processes)
    BY <1>1, <1>n, <2>1, SelectNeat
  <2> QED
    BY <2>k, <2>2
<1>3. ASSUME CanMoveDown
      PROVE  Neat([state EXCEPT !.selected = state.selected + 1], processes)
  <2>k. PICK k : k = state.selected + 1
    OBVIOUS
  <2>1. k \in Nat /\ k < High(1, n)
    BY <1>1, <1>3, <1>n, <2>k DEF High, CanMoveDown
  <2>2. Neat([state EXCEPT !.selected = k], processes)
    BY <1>1, <1>n, <2>1, SelectNeat
  <2> QED
    BY <2>k, <2>2
<1> QED
  BY <1>1, <1>2, <1>3

\* Keys that change the list's view.
LEMMA ViewKeyHandled == ASSUME DashboardInv, NEW k \in ViewKeys, ViewKey(k) PROVE Handled
<1>0. /\ Silently /\ Neat(state, processes) /\ state \in State /\ Short(state) /\ Apart(state)
      /\ Listing(processes)
  BY StateParts DEF ViewKey
<1>1. ASSUME NEW s, state' = s, Repaint \/ Renew, Neat(s, processes) PROVE Handled
  BY <1>0, <1>1, SilentHandlerEnds
<1>2. CASE k = "q"
  <2>1. Exit
    BY <1>2 DEF ViewKey
  <2> QED
    BY <1>0, <2>1, SilentHandlerEnds DEF Exit
<1>3. CASE k = "/"
  <2>1. state' = [state EXCEPT !.searching = TRUE] /\ Repaint
    BY <1>3 DEF ViewKey
  <2> QED
    BY <1>0, <1>1, <2>1, SwitchNeat
<1>4. CASE k = "f"
  <2>x. PICK x : x = After(Filters, state.filter)
    OBVIOUS
  <2>t. PICK t : t = [state EXCEPT !.filter = x]
    OBVIOUS
  <2>1. state' = Info(Clamped(t, processes)) /\ Repaint
    BY <1>4, <2>x, <2>t DEF ViewKey
  <2>2. x \in {"all", "running", "stopped", "unhealthy"}
    BY <1>0, <2>x, AfterCycles DEF State
  <2>3. t \in State /\ t.query = state.query /\ t.form = state.form
        /\ t.confirm = state.confirm /\ t.viewer = state.viewer
    BY <1>0, <2>t, <2>2 DEF State
  <2>4. Short(t) /\ Apart(t)
    BY <1>0, <2>3 DEF Short, Apart
  <2>5. Neat(Clamped(t, processes), processes)
    BY <1>0, <2>3, <2>4, ClampedNeat
  <2>6. Neat(Info(Clamped(t, processes)), processes)
    BY <2>5, FlashNeat DEF Info
  <2> QED
    BY <1>1, <2>1, <2>6
<1>5. CASE k = "o"
  <2>x. PICK x : x = After(Sorts, state.sort)
    OBVIOUS
  <2>t. PICK t : t = [state EXCEPT !.sort = x]
    OBVIOUS
  <2>1. state' = Info(Clamped(t, processes)) /\ Repaint
    BY <1>5, <2>x, <2>t DEF ViewKey
  <2>2. x \in {"id", "name", "cpu", "ram", "restarts"}
    BY <1>0, <2>x, AfterCycles DEF State, SortKeys
  <2>3. t \in State /\ t.query = state.query /\ t.form = state.form
        /\ t.confirm = state.confirm /\ t.viewer = state.viewer
    BY <1>0, <2>t, <2>2 DEF State
  <2>4. Short(t) /\ Apart(t)
    BY <1>0, <2>3 DEF Short, Apart
  <2>5. Neat(Clamped(t, processes), processes)
    BY <1>0, <2>3, <2>4, ClampedNeat
  <2>6. Neat(Info(Clamped(t, processes)), processes)
    BY <2>5, FlashNeat DEF Info
  <2> QED
    BY <1>1, <2>1, <2>6
<1>6. CASE k = "esc"
  <2>1. state' = [state EXCEPT !.menu = TRUE, !.choice = "resume"] /\ Repaint
    BY <1>6 DEF ViewKey
  <2> QED
    BY <1>0, <1>1, <2>1, SwitchNeat
<1>7. CASE k = "?"
  <2>1. state' = [state EXCEPT !.help = TRUE] /\ Repaint
    BY <1>7 DEF ViewKey
  <2> QED
    BY <1>0, <1>1, <2>1, SwitchNeat
<1>8. CASE k = "n"
  <2>1. state' = [state EXCEPT !.form = NewForm] /\ Repaint
    BY <1>8 DEF ViewKey
  <2>2. NewForm \in Form /\ Len(NewForm.command) <= MaxText /\ Len(NewForm.name) <= MaxText
    BY DashboardAssumption DEF NewForm, Form
  <2>3. Neat([state EXCEPT !.form = NewForm], processes)
    BY <1>0, <2>2, OverlayNeat
  <2> QED
    BY <1>1, <2>1, <2>3
<1>9. CASE k = "up"
  <2>1. state.selected > 0 /\ state' = [state EXCEPT !.selected = state.selected - 1] /\ Repaint
    BY <1>9 DEF ViewKey
  <2> QED
    BY <1>1, <2>1, MoveHandled
<1>10. CASE k = "down"
  <2>1. CanMoveDown /\ state' = [state EXCEPT !.selected = state.selected + 1] /\ Repaint
    BY <1>10 DEF ViewKey
  <2> QED
    BY <1>1, <2>1, MoveHandled
<1>11. CASE k = "g"
  <2>1. state' = Info(state) /\ Renew
    BY <1>11 DEF ViewKey
  <2>2. Neat(Info(state), processes)
    BY <1>0, FlashNeat DEF Info
  <2> QED
    BY <1>1, <2>1, <2>2
<1>12. CASE k = " "
  <2>1. state' = state /\ Renew
    BY <1>12 DEF ViewKey
  <2> QED
    BY <1>0, <1>1, <2>1
<1> QED
  BY <1>2, <1>3, <1>4, <1>5, <1>6, <1>7, <1>8, <1>9, <1>10, <1>11, <1>12 DEF ViewKeys

\* Keys that act on the selected process.
LEMMA ActionKeyHandled == ASSUME DashboardInv, NEW k \in ActionKeys, ActionKey(k) PROVE Handled
<1>n. PICK n : n = Target(processes, state)
  OBVIOUS
<1>0. /\ Neat(state, processes) /\ n \in Names \cup {NONE} /\ size \in Sizes
      /\ state.confirm = NONE /\ state.viewer = NONE
  BY <1>n, StateParts, RowsTyped DEF ActionKey, Focus
<1>1. Neat(Info(state), processes) /\ Neat(Error(state), processes)
  BY <1>0, FlashNeat DEF Info, Error
<1>2. CASE n = NONE
  <2>1. Silently /\ UNCHANGED state /\ (Repaint \/ Renew)
    BY <1>n, <1>2 DEF ActionKey
  <2> QED
    BY <2>1, SilentHandlerEnds
<1>3. CASE n # NONE
  <2>1. CASE k \in DOMAIN Verbs
    <3>k. k \notin {"t", "l", "d"}
      BY <2>1 DEF Verbs
    <3>1. Ask(Verbs[k], n, {Info(state)}, Error(state)) /\ Renew
      BY <1>n, <1>3, <2>1, <3>k DEF ActionKey
    <3>2. Verbs[k] \in {"delete", "stop", "restart", "reload", "pull", "logs"}
      BY <2>1 DEF Verbs
    <3>3. Registered(table', nextId') /\ changes' = changes
          /\ (state' \in {Info(state)} \/ state' = Error(state))
      BY <3>1, <3>2, AskedOnce
    <3> QED
      BY <1>1, <3>1, <3>3, HandlerEnds
  <2>2. CASE k = "t"
    <3>1. Ask("logs", n, {Info(state)}, Error(state)) /\ Repaint
      BY <1>n, <1>3, <2>2 DEF ActionKey, Verbs
    <3>3. Registered(table', nextId') /\ changes' = changes
          /\ (state' \in {Info(state)} \/ state' = Error(state))
      BY <3>1, AskedOnce
    <3> QED
      BY <1>1, <3>1, <3>3, HandlerEnds
  <2>3. CASE k = "l"
    <3>s. PICK opened : opened = {[state EXCEPT !.viewer = v] : v \in Viewers(n)}
      OBVIOUS
    <3>1. Ask("logs", n, opened, Error(state)) /\ Repaint
      BY <1>n, <1>3, <2>3, <3>s DEF ActionKey, Verbs
    <3>2. Registered(table', nextId') /\ changes' = changes
          /\ (state' \in opened \/ state' = Error(state))
      BY <3>1, AskedOnce
    <3>3. \A v \in Viewers(n) : v \in Viewer
      BY <1>0, <1>3, ViewersTyped
    <3>4. \A v \in Viewers(n) : Neat([state EXCEPT !.viewer = v], processes)
      BY <1>0, <3>3, OverlayNeat
    <3>5. Neat(state', processes)
      BY <1>1, <3>s, <3>2, <3>4
    <3> QED
      BY <3>1, <3>2, <3>5, HandlerEnds
  <2>4. CASE k = "d"
    <3>c. PICK c : c = [target |-> n, choice |-> "cancel"]
      OBVIOUS
    <3>1. state' = [state EXCEPT !.confirm = c] /\ Silently /\ Repaint
      BY <1>n, <1>3, <2>4, <3>c DEF ActionKey, Verbs
    <3>2. c \in Confirm
      BY <1>0, <1>3, <3>c DEF Confirm
    <3>3. Neat([state EXCEPT !.confirm = c], processes)
      BY <1>0, <3>2, OverlayNeat
    <3> QED
      BY <3>1, <3>3, SilentHandlerEnds
  <2> QED
    BY <2>1, <2>2, <2>3, <2>4 DEF ActionKeys
<1> QED
  BY <1>2, <1>3

\* In the input phase the frame on the screen is the state's.
LEMMA FrameRead ==
    ASSUME DashboardInv, pc = "input"
    PROVE  frame = Frame(processes) /\ frame.start = StartIndex /\ StartIndex \in Nat
<1>1. frame = Frame(processes)
  BY DEF DashboardInv, Fresh
<1>2. frame.start = StartIndex
  BY <1>1 DEF Frame
<1>3. TableRows \in Nat /\ state.selected \in Nat
  <2>1. size.height \in Nat /\ Chrome \in Nat
    BY DashboardAssumption DEF DashboardInv
  <2>2. TableRows \in Nat
    BY <2>1 DEF TableRows, High, Less
  <2> QED
    BY <2>2, StateParts DEF State
<1>4. StartIndex \in Nat
  BY <1>3 DEF StartIndex
<1> QED
  BY <1>1, <1>2, <1>4

\* Clicks on the table.
LEMMA ClickRowHandled == ASSUME DashboardInv, NEW i \in 0 .. MaxId, ClickRow(i) PROVE Handled
<1>r. PICK r : r = RowClicked(i)
  OBVIOUS
<1>0. Silently /\ pc = "input" /\ Neat(state, processes)
  BY StateParts DEF ClickRow, Read
<1>1. r \in Nat
  BY <1>r, <1>0, FrameRead, DashboardAssumption DEF RowClicked
<1>2. CASE r < Len(Visible(processes, state)) /\ state' = [state EXCEPT !.selected = r] /\ Repaint
  <2>1. r < High(1, Len(Visible(processes, state)))
    BY <1>1, <1>2, StateParts, RowsTyped DEF High
  <2>2. Neat([state EXCEPT !.selected = r], processes)
    BY <1>0, <1>1, <2>1, SelectNeat
  <2> QED
    BY <1>0, <1>2, <2>2, SilentHandlerEnds
<1>3. CASE Ignore
  BY <1>0, <1>3, SilentHandlerEnds DEF Ignore
<1> QED
  BY <1>r, <1>2, <1>3 DEF ClickRow

\* Clicks on a dialog's or the menu's buttons.
LEMMA ClickButtonHandled ==
    ASSUME DashboardInv, NEW b, ClickButton(b)
    PROVE  Handled
<1>1. CASE MouseFocus = "confirm" /\ (CloseConfirm \/ ConfirmDelete)
  <2>1. state.confirm # NONE
    BY <1>1 DEF MouseFocus, Focus
  <2> QED
    BY <1>1, <2>1, ConfirmHandled, DeleteHandled
<1>2. CASE Silently /\ \/ state' = [state EXCEPT !.menu = FALSE] /\ Repaint
                       \/ Exit
  <2>1. CASE state' = [state EXCEPT !.menu = FALSE] /\ Repaint
    <3>1. Neat([state EXCEPT !.menu = FALSE], processes)
      BY StateParts, SwitchNeat
    <3> QED
      BY <1>2, <2>1, <3>1, SilentHandlerEnds
  <2>2. CASE Exit
    BY <1>2, <2>2, SilentHandlerEnds DEF Exit
  <2> QED
    BY <1>2, <2>1, <2>2
<1> QED
  BY <1>1, <1>2 DEF ClickButton

\* Clicks on the help or the form.
LEMMA ClickOverlayHandled == ASSUME DashboardInv, ClickOverlay PROVE Handled
<1>b. PICK b : b = (state.help /\ MouseFocus # "help")
  OBVIOUS
<1>1. Silently /\ Repaint /\ state' = [state EXCEPT !.help = b]
  BY <1>b DEF ClickOverlay
<1>2. b \in BOOLEAN
  BY <1>b
<1>3. Neat([state EXCEPT !.help = b], processes)
  BY <1>2, StateParts, SwitchNeat
<1> QED
  BY <1>1, <1>3, SilentHandlerEnds

\* The mouse wheel.
LEMMA TurnHandled == ASSUME DashboardInv, NEW w \in {"up", "down"}, Turn(w) PROVE Handled
<1>v. PICK v : v = state.viewer
  OBVIOUS
<1>0. Silently /\ Neat(state, processes)
  BY StateParts DEF Turn
<1>1. CASE MouseFocus = "viewer" /\ Repaint
           /\ state' = [state EXCEPT !.viewer =
                           IF w = "up" THEN ScrolledUp(@, 3) ELSE ScrolledBy(@, 3)]
  <2>1. v # NONE /\ v \in Viewer /\ state.confirm = NONE /\ size \in Sizes
    BY <1>1, <1>v, StateParts DEF MouseFocus, Focus, Apart
  <2>u. PICK u : u = IF w = "up" THEN ScrolledUp(v, 3) ELSE ScrolledBy(v, 3)
    OBVIOUS
  <2>2. u \in Viewer
    BY <2>1, <2>u, ViewerStays
  <2>3. Neat([state EXCEPT !.viewer = u], processes)
    BY <1>0, <2>1, <2>2, OverlayNeat
  <2>4. state' = [state EXCEPT !.viewer = u]
    BY <1>1, <1>v, <2>u
  <2> QED
    BY <1>0, <1>1, <2>3, <2>4, SilentHandlerEnds
<1>2. CASE \/ state.selected > 0 /\ state' = [state EXCEPT !.selected = state.selected - 1] /\ Repaint
           \/ CanMoveDown /\ state' = [state EXCEPT !.selected = state.selected + 1] /\ Repaint
  <2>1. Neat(state', processes)
    BY <1>2, MoveHandled
  <2> QED
    BY <1>0, <1>2, <2>1, SilentHandlerEnds
<1>3. CASE Ignore
  BY <1>0, <1>3, SilentHandlerEnds DEF Ignore
<1> QED
  BY <1>1, <1>2, <1>3 DEF Turn

\* The terminal's size changes.
LEMMA ResizeHandled == ASSUME DashboardInv, NEW z \in Sizes, Resize(z) PROVE Handled
<1>1. /\ Silently /\ size' = z /\ pc' = "top" /\ redraw' = TRUE /\ refresh' = refresh
      /\ state' = state
  BY DEF Resize
<1>2. table' = table /\ nextId' = nextId /\ changes' = changes
  BY <1>1 DEF Silently, daemon
<1> QED
  BY <1>1, <1>2 DEF DashboardInv, Handled

-----------------------------------------------------------------------------
(* The invariant holds.                                                    *)

\* Every input event is handled so.
LEMMA InputHandled ==
    ASSUME DashboardInv, Input
    PROVE  /\ Handled /\ pc = "input" /\ events < MaxEvents /\ events' = events + 1
           /\ processes' = processes /\ frame' = frame
<1>1. CASE \E k \in SearchKeys : SearchKey(k)
  <2>1. PICK k \in SearchKeys : SearchKey(k)
    BY <1>1
  <2> QED
    BY <2>1, SearchKeyHandled DEF SearchKey, Read
<1>2. CASE \E k \in FormKeys : FormKey(k)
  <2>1. PICK k \in FormKeys : FormKey(k)
    BY <1>2
  <2> QED
    BY <2>1, FormKeyHandled DEF FormKey, Read
<1>3. CASE \E k \in ConfirmKeys : ConfirmKey(k)
  <2>1. PICK k \in ConfirmKeys : ConfirmKey(k)
    BY <1>3
  <2> QED
    BY <2>1, ConfirmKeyHandled DEF ConfirmKey, Read
<1>4. CASE \E k \in ViewerKeys : ViewerKey(k)
  <2>1. PICK k \in ViewerKeys : ViewerKey(k)
    BY <1>4
  <2>2. Read(Key(k))
    BY <2>1 DEF ViewerKey
  <2> QED
    BY <2>1, <2>2, ViewerKeyHandled DEF Read
<1>5. CASE \E k \in HelpKeys : HelpKey(k)
  <2>1. PICK k \in HelpKeys : HelpKey(k)
    BY <1>5
  <2> QED
    BY <2>1, HelpKeyHandled DEF HelpKey, Read
<1>6. CASE \E k \in MenuKeys : MenuKey(k)
  <2>1. PICK k \in MenuKeys : MenuKey(k)
    BY <1>6
  <2> QED
    BY <2>1, MenuKeyHandled DEF MenuKey, Read
<1>7. CASE \E k \in ViewKeys : ViewKey(k)
  <2>1. PICK k \in ViewKeys : ViewKey(k)
    BY <1>7
  <2>2. Read(Key(k))
    BY <2>1 DEF ViewKey
  <2> QED
    BY <2>1, <2>2, ViewKeyHandled DEF Read
<1>8. CASE \E k \in ActionKeys : ActionKey(k)
  <2>1. PICK k \in ActionKeys : ActionKey(k)
    BY <1>8
  <2>2. Read(Key(k))
    BY <2>1 DEF ActionKey
  <2> QED
    BY <2>1, <2>2, ActionKeyHandled DEF Read
<1>9. CASE \E i \in 0 .. MaxId : ClickRow(i)
  <2>1. PICK i \in 0 .. MaxId : ClickRow(i)
    BY <1>9
  <2> QED
    BY <2>1, ClickRowHandled DEF ClickRow, Read
<1>10. CASE \E b \in {"cancel", "delete", "resume", "quit"} : ClickButton(b)
  <2>1. PICK b \in {"cancel", "delete", "resume", "quit"} : ClickButton(b)
    BY <1>10
  <2> QED
    BY <2>1, ClickButtonHandled DEF ClickButton, Read
<1>11. CASE ClickOverlay
  BY <1>11, ClickOverlayHandled DEF ClickOverlay, Read
<1>12. CASE \E w \in {"up", "down"} : Turn(w)
  <2>1. PICK w \in {"up", "down"} : Turn(w)
    BY <1>12
  <2> QED
    BY <2>1, TurnHandled DEF Turn, Read
<1>13. CASE \E z \in Sizes : Resize(z)
  <2>1. PICK z \in Sizes : Resize(z)
    BY <1>13
  <2> QED
    BY <2>1, ResizeHandled DEF Resize, Read
<1> QED
  BY <1>1, <1>2, <1>3, <1>4, <1>5, <1>6, <1>7, <1>8, <1>9, <1>10, <1>11, <1>12, <1>13 DEF Input

\* The invariant holds at first.
LEMMA InitDashboard == Init => DashboardInv
<1> SUFFICES ASSUME Init PROVE DashboardInv
  OBVIOUS
<1>0. IsFiniteSet(Listed) /\ Cardinality(Listed) \in Nat /\ MaxId \in Nat
  BY DashboardAssumption, FS_CardinalityType
<1>1. Registered(table, nextId)
  <2>1. table = Listed /\ nextId = Cardinality(Listed) + 1
    BY DEF Init
  <2>2. Cardinality(Listed) <= MaxId /\ Listed \subseteq [id : 1 .. Cardinality(Listed), name : Names, look : Looks]
        /\ \A p, q \in Listed : p.id = q.id => p = q
    BY DashboardAssumption
  <2> HIDE DEF Registered
  <2>c. PICK c : c = Cardinality(Listed)
    OBVIOUS
  <2>3. \A p \in Listed : p \in Process /\ p.id < c + 1
    <3>1. \A p \in Listed : p \in [id : 1 .. c, name : Names, look : Looks]
      BY <2>2, <2>c
    <3>2. c \in Nat /\ c <= MaxId
      BY <1>0, <2>2, <2>c
    <3> QED
      BY <1>0, <3>1, <3>2 DEF Process
  <2> QED
    BY <1>0, <2>1, <2>2, <2>3, <2>c DEF Registered, Listing
<1>2. Listing({}) /\ processes = {}
  BY DEF Listing, Init
<1>3. Neat(NewState, {}) /\ state = NewState
  <2>1. NewState \in State
    BY DEF NewState, State
  <2>2. Short(NewState) /\ Apart(NewState)
    BY DashboardAssumption DEF NewState, Short, Apart
  <2>3. Len(Visible({}, NewState)) \in Nat
    BY <1>2, <2>1, RowsTyped
  <2>4. InList(NewState, {})
    BY <2>3 DEF InList, NewState, High
  <2> QED
    BY <2>1, <2>2, <2>4 DEF Neat, Init
<1> QED
  BY <1>1, <1>2, <1>3, DashboardAssumption DEF Init, DashboardInv, Fresh

\* What is drawn depends on the list, the state and the size alone.
LEMMA FrameStays ==
    ASSUME UNCHANGED <<processes, state, size>>
    PROVE  Frame(processes)' = Frame(processes)
  BY DEF Frame, TableDrawn, Marked, Overlays, Buttons, Kind, StartIndex, TableRows, Dialog,
     Fits, Sidebar, SidebarFits, SidebarWidth, TableInner, TooSmall, Width

\* A step of the loop that handles no event.
LEMMA LoopStep ==
    ASSUME DashboardInv, Loop
    PROVE  DashboardInv'
<1>0. /\ Registered(table, nextId) /\ Listing(table) /\ Listing(processes)
      /\ Neat(state, processes) /\ state \in State /\ Short(state) /\ Apart(state)
  BY StateParts DEF DashboardInv, Registered
<1>1. ASSUME Fetch PROVE DashboardInv'
  <2>f. PICK f : f = IF Clamped(state, table).flash = "error" THEN "none"
                     ELSE Clamped(state, table).flash
    OBVIOUS
  <2>1. state' = [Clamped(state, table) EXCEPT !.flash = f]
    BY <1>1, <2>f DEF Fetch
  <2>2. Neat(Clamped(state, table), table)
    BY <1>0, ClampedNeat
  <2>3. f \in {"none", "info", "error"}
    BY <2>2, <2>f DEF Neat, State
  <2>4. Neat(state', table)
    BY <2>1, <2>2, <2>3, FlashNeat
  <2> QED
    BY <1>0, <1>1, <2>4 DEF Fetch, DashboardInv, Fresh, daemon
<1>2. ASSUME FetchFails PROVE DashboardInv'
  <2>1. Neat(state', processes)
    BY <1>0, <1>2, FlashNeat DEF FetchFails, Error
  <2> QED
    BY <1>2, <2>1 DEF FetchFails, DashboardInv, Fresh, daemon
<1>3. ASSUME NotDue PROVE DashboardInv'
  <2>1. /\ UNCHANGED <<table, nextId, changes, size, processes, state, frame, redraw, refresh, events>>
        /\ pc = "top" /\ pc' = "draw"
    BY <1>3 DEF NotDue, daemon, loop
  <2>2. Frame(processes)' = Frame(processes)
    BY <2>1, FrameStays
  <2> QED
    BY <2>1, <2>2 DEF DashboardInv, Fresh
<1>4. ASSUME Draw PROVE DashboardInv'
  <2>1. CASE redraw
    <3>1. /\ UNCHANGED <<table, nextId, changes, size, processes, refresh, events>>
          /\ pc' = "input" /\ redraw' = FALSE /\ state' = Clamped(state, processes)
          /\ frame' = Frame(processes)'
      BY <1>4, <2>1 DEF Draw, daemon
    <3>2. Neat(state', processes)
      BY <1>0, <3>1, ClampedNeat
    <3> QED
      BY <3>1, <3>2 DEF DashboardInv, Fresh
  <2>2. CASE ~redraw
    <3>1. /\ UNCHANGED <<table, nextId, changes, size, processes, state, frame, refresh, events>>
          /\ pc = "draw" /\ pc' = "input" /\ redraw' = FALSE
      BY <1>4, <2>2 DEF Draw, daemon
    <3>2. Frame(processes)' = Frame(processes)
      BY <3>1, FrameStays
    <3> QED
      BY <2>2, <3>1, <3>2 DEF DashboardInv, Fresh
  <2> QED
    BY <2>1, <2>2
<1>5. ASSUME NoInput PROVE DashboardInv'
  <2>1. /\ UNCHANGED <<table, nextId, changes, size, processes, state, frame, redraw, refresh, events>>
        /\ pc = "input" /\ pc' = "top"
    BY <1>5 DEF NoInput, daemon, loop
  <2>2. Frame(processes)' = Frame(processes)
    BY <2>1, FrameStays
  <2> QED
    BY <2>1, <2>2 DEF DashboardInv, Fresh
<1>6. ASSUME PruneFlash PROVE DashboardInv'
  <2>1. Neat(state', processes)
    BY <1>0, <1>6, FlashNeat DEF PruneFlash
  <2> QED
    BY <1>6, <2>1 DEF PruneFlash, DashboardInv, Fresh, daemon
<1> QED
  BY <1>1, <1>2, <1>3, <1>4, <1>5, <1>6 DEF Loop

\* Other clients change what the dashboard has not fetched.
LEMMA OtherClientStep ==
    ASSUME DashboardInv, OtherClient
    PROVE  DashboardInv'
<1>1. /\ changes < MaxChanges /\ changes' = changes + 1
      /\ UNCHANGED <<size, processes, state, frame, pc, redraw, refresh, events>>
  BY DEF OtherClient, loop
<1>2. Registered(table', nextId')
  <2>0. Registered(table, nextId)
    BY DEF DashboardInv
  <2>1. CASE nextId <= MaxId /\ table' \in Started(Names) /\ nextId' = nextId + 1
    BY <2>0, <2>1, StartedRegistered
  <2>2. CASE nextId' = nextId /\ \E n \in Names \ Free :
                table' \in Relooked(n, Looks) \cup {table \ Named(table, n)}
    BY <2>0, <2>2, RelookedRegistered, RemovedRegistered
  <2> QED
    BY <2>1, <2>2 DEF OtherClient
<1>3. Frame(processes)' = Frame(processes)
  BY <1>1, FrameStays
<1>4. changes' \in 0 .. MaxChanges
  BY <1>1, DashboardAssumption DEF DashboardInv
<1> QED
  BY <1>1, <1>2, <1>3, <1>4 DEF DashboardInv, Fresh

\* A handler keeps the invariant.
LEMMA InputStep ==
    ASSUME DashboardInv, Input
    PROVE  DashboardInv'
<1>1. /\ Handled /\ pc = "input" /\ events < MaxEvents /\ events' = events + 1
      /\ processes' = processes /\ frame' = frame
  BY InputHandled
<1>2. events' \in 0 .. MaxEvents /\ changes' \in 0 .. MaxChanges
  BY <1>1, DashboardAssumption DEF DashboardInv, Handled
<1>3. Fresh'
  <2>1. CASE pc' = "done" \/ redraw' = TRUE
    BY <1>1, <2>1 DEF Handled, Fresh
  <2>2. CASE pc' # "done" /\ redraw' # TRUE
    <3>1. redraw' = redraw /\ UNCHANGED <<state, size>> /\ pc' = "top"
      BY <1>1, <2>2 DEF Handled
    <3>2. Frame(processes)' = Frame(processes)
      BY <1>1, <3>1, FrameStays
    <3> QED
      BY <1>1, <3>1, <3>2 DEF DashboardInv, Fresh
  <2> QED
    BY <2>1, <2>2
<1> QED
  BY <1>1, <1>2, <1>3 DEF DashboardInv, Handled

\* A step of nothing.
LEMMA DashboardStutter ==
    ASSUME DashboardInv, UNCHANGED vars
    PROVE  DashboardInv'
<1>1. UNCHANGED <<table, nextId, changes, size, processes, state, frame, pc, redraw, refresh, events>>
  BY DEF vars, daemon, loop
<1>2. Frame(processes)' = Frame(processes)
  BY <1>1, FrameStays
<1> QED
  BY <1>1, <1>2 DEF DashboardInv, Fresh

\* The list and the state agree in every reachable state, and between drawing and the
\* end of the handler the screen agrees with both.
LEMMA DashboardInvariant == Spec => []DashboardInv
<1>1. Init => DashboardInv
  BY InitDashboard
<1>2. DashboardInv /\ [Next]_vars => DashboardInv'
  <2> SUFFICES ASSUME DashboardInv, [Next]_vars PROVE DashboardInv'
    OBVIOUS
  <2>1. CASE OtherClient
    BY <2>1, OtherClientStep
  <2>2. CASE Loop
    BY <2>2, LoopStep
  <2>3. CASE Input
    BY <2>3, InputStep
  <2>4. CASE UNCHANGED vars
    BY <2>4, DashboardStutter
  <2> QED
    BY <2>1, <2>2, <2>3, <2>4 DEF Next
<1> QED
  BY <1>1, <1>2, PTL DEF Spec

-----------------------------------------------------------------------------
(* Theorems.                                                               *)

\* The dashboard keeps its state's type, the selection in the list, and texts in their bound.
THEOREM DashboardTypeCorrect == Spec => []TypeOK
<1>1. DashboardInv => TypeOK
  BY DEF DashboardInv, TypeOK, Registered, Listing, Neat, Short, InList
<1> QED
  BY <1>1, DashboardInvariant, PTL

\* What a handler asks the daemon, and when: the keys on the list ask for the selected
\* process, and only a confirmed dialog asks for a deletion.
LEMMA InputAsks ==
    ASSUME DashboardInv, Input
    PROVE  \/ asked' = NONE
           \/ asked' = Request("start", NONE)
           \/ /\ asked' = Request("delete", state.confirm.target) /\ state.confirm # NONE
              /\ \/ event' \in {Key("y"), Click("delete")}
                 \/ event' = Key("enter") /\ state.confirm.choice = "delete"
           \/ /\ Focus = "dashboard" /\ Target(processes, state) # NONE
              /\ \E verb \in {"stop", "restart", "reload", "pull", "logs"} :
                    asked' = Request(verb, Target(processes, state))
<1>1. ASSUME NEW k \in SearchKeys, SearchKey(k) PROVE asked' = NONE
  BY <1>1 DEF SearchKey, Silently
<1>2. ASSUME NEW k \in FormKeys, FormKey(k) PROVE asked' = NONE \/ asked' = Request("start", NONE)
  BY <1>2, FormSubmitted DEF FormKey, Silently
<1>3. ASSUME NEW k \in ConfirmKeys, ConfirmKey(k)
      PROVE  \/ asked' = NONE
             \/ /\ asked' = Request("delete", state.confirm.target) /\ state.confirm # NONE
                /\ \/ event' = Key("y")
                   \/ event' = Key("enter") /\ state.confirm.choice = "delete"
  <2>0. state.confirm # NONE /\ event' = Key(k)
    BY <1>3 DEF ConfirmKey, Focus, Read
  <2>1. ConfirmDelete => asked' = Request("delete", state.confirm.target)
    BY <2>0, DeleteHandled
  <2>2. CloseConfirm \/ ChooseButton("cancel") \/ ChooseButton("delete") => asked' = NONE
    BY DEF CloseConfirm, ChooseButton, Silently
  <2>3. CASE k \in {"esc", "n", "left", "right"}
    <3>1. CloseConfirm \/ ChooseButton("cancel") \/ ChooseButton("delete")
      BY <1>3, <2>3 DEF ConfirmKey
    <3> QED
      BY <2>2, <3>1
  <2>4. CASE k = "y"
    <3>1. ConfirmDelete
      BY <1>3, <2>4 DEF ConfirmKey
    <3> QED
      BY <2>0, <2>1, <2>4, <3>1
  <2>5. CASE k = "enter"
    <3>1. IF state.confirm.choice = "delete" THEN ConfirmDelete ELSE CloseConfirm
      BY <1>3, <2>5 DEF ConfirmKey
    <3> QED
      BY <2>0, <2>1, <2>2, <2>5, <3>1
  <2> QED
    BY <2>3, <2>4, <2>5 DEF ConfirmKeys
<1>4. ASSUME NEW k \in ViewerKeys, ViewerKey(k) PROVE asked' = NONE
  BY <1>4 DEF ViewerKey, Silently
<1>5. ASSUME NEW k \in HelpKeys, HelpKey(k) PROVE asked' = NONE
  BY <1>5 DEF HelpKey, Silently
<1>6. ASSUME NEW k \in MenuKeys, MenuKey(k) PROVE asked' = NONE
  BY <1>6 DEF MenuKey, Silently
<1>7. ASSUME NEW k \in ViewKeys, ViewKey(k) PROVE asked' = NONE
  BY <1>7 DEF ViewKey, Silently
<1>8. ASSUME NEW k \in ActionKeys, ActionKey(k)
      PROVE  \/ asked' = NONE
             \/ /\ Focus = "dashboard" /\ Target(processes, state) # NONE
                /\ \E verb \in {"stop", "restart", "reload", "pull", "logs"} :
                      asked' = Request(verb, Target(processes, state))
  <2>n. PICK n : n = Target(processes, state)
    OBVIOUS
  <2>1. Focus = "dashboard"
    BY <1>8 DEF ActionKey
  <2>2. CASE n = NONE
    BY <1>8, <2>n, <2>2 DEF ActionKey, Silently
  <2>3. CASE n # NONE /\ k \in DOMAIN Verbs
    <3>k. k \notin {"t", "l", "d"}
      BY <2>3 DEF Verbs
    <3>1. Ask(Verbs[k], n, {Info(state)}, Error(state))
      BY <1>8, <2>n, <2>3, <3>k DEF ActionKey
    <3>2. Verbs[k] \in {"stop", "restart", "reload", "pull", "logs"}
      BY <2>3 DEF Verbs
    <3>3. asked' = Request(Verbs[k], n)
      BY <3>1 DEF Ask
    <3> QED
      BY <2>n, <2>1, <2>3, <3>2, <3>3
  <2>4. CASE n # NONE /\ k \in {"t", "l"}
    <3>1. \E ok, err : Ask("logs", n, ok, err)
      BY <1>8, <2>n, <2>4 DEF ActionKey, Verbs
    <3>2. asked' = Request("logs", n)
      BY <3>1 DEF Ask
    <3> QED
      BY <2>n, <2>1, <2>4, <3>2
  <2>5. CASE n # NONE /\ k = "d"
    <3>1. Silently
      BY <1>8, <2>n, <2>5 DEF ActionKey, Verbs
    <3> QED
      BY <3>1 DEF Silently
  <2> QED
    BY <2>2, <2>3, <2>4, <2>5 DEF ActionKeys
<1>9. ASSUME NEW i \in 0 .. MaxId, ClickRow(i) PROVE asked' = NONE
  BY <1>9 DEF ClickRow, Silently
<1>10. ASSUME NEW b \in {"cancel", "delete", "resume", "quit"}, ClickButton(b)
       PROVE  \/ asked' = NONE
              \/ /\ asked' = Request("delete", state.confirm.target) /\ state.confirm # NONE
                 /\ event' = Click("delete")
  <2>1. \/ Silently \/ CloseConfirm
        \/ MouseFocus = "confirm" /\ b = "delete" /\ ConfirmDelete
    BY <1>10 DEF ClickButton
  <2>2. event' = Click(b)
    BY <1>10 DEF ClickButton, Read
  <2>3. CASE MouseFocus = "confirm" /\ b = "delete" /\ ConfirmDelete
    <3>1. state.confirm # NONE
      BY <2>3 DEF MouseFocus, Focus
    <3> QED
      BY <2>2, <2>3, <3>1, DeleteHandled
  <2> QED
    BY <2>1, <2>3 DEF CloseConfirm, Silently
<1>11. ASSUME ClickOverlay PROVE asked' = NONE
  BY <1>11 DEF ClickOverlay, Silently
<1>12. ASSUME NEW w \in {"up", "down"}, Turn(w) PROVE asked' = NONE
  BY <1>12 DEF Turn, Silently
<1>13. ASSUME NEW z \in Sizes, Resize(z) PROVE asked' = NONE
  BY <1>13 DEF Resize, Silently
<1> QED
  BY <1>1, <1>2, <1>3, <1>4, <1>5, <1>6, <1>7, <1>8, <1>9, <1>10, <1>11, <1>12, <1>13 DEF Input

\* Nothing else asks.
LEMMA LoopAsksNothing == Loop \/ OtherClient \/ UNCHANGED vars => asked' = NONE \/ asked' = asked
  BY DEF Loop, Fetch, FetchFails, NotDue, Draw, NoInput, PruneFlash, OtherClient, vars

\* A key on the list acts on the process that the frame on the screen marks: the frame is
\* drawn of the list and the state the key's handler reads.
THEOREM ActsOnTheMarkedProcess == Spec => ActsOnTheMarked
<1> DEFINE Marks ==
      asked' # asked /\ asked' # NONE /\ asked'.verb \notin {"start", "delete"} =>
          /\ frame.kind # "viewer" /\ frame.overlays = {}
          /\ frame.marked \in {asked'.target, NONE}
          /\ frame.rows # <<>> => frame.marked = asked'.target
<1>1. DashboardInv /\ [Next]_vars => [Marks]_vars
  <2> SUFFICES ASSUME DashboardInv, [Next]_vars,
                      asked' # asked, asked' # NONE, asked'.verb \notin {"start", "delete"}
               PROVE  /\ frame.kind # "viewer" /\ frame.overlays = {}
                      /\ frame.marked \in {asked'.target, NONE}
                      /\ frame.rows # <<>> => frame.marked = asked'.target
    OBVIOUS
  <2>1. Input
    BY LoopAsksNothing DEF Next
  <2>n. PICK n : n = Target(processes, state)
    OBVIOUS
  <2>2. Focus = "dashboard" /\ asked'.target = n
    BY <2>1, <2>n, InputAsks DEF Request
  <2>3. frame = Frame(processes)
    BY <2>1, InputHandled, FrameRead
  <2>4. /\ ~state.searching /\ state.form = NONE /\ state.confirm = NONE /\ state.viewer = NONE
        /\ ~state.help /\ ~state.menu
    BY <2>2, StateParts DEF Focus, State
  <2>5. frame.kind # "viewer"
    BY <2>3, <2>4 DEF Frame, Kind
  <2>6. Overlays = {}
    BY <2>4 DEF Overlays
  <2>7. frame.overlays = {}
    BY <2>3, <2>6 DEF Frame
  <2>8. frame.marked = Marked(processes) /\ frame.rows = TableDrawn(processes)
    BY <2>3 DEF Frame
  <2>9. Marked(processes) \in {n, NONE} /\ (Fits(processes) => Marked(processes) = n)
    BY <2>n DEF Marked
  <2>10. frame.rows # <<>> => Fits(processes)
    BY <2>8 DEF TableDrawn
  <2> QED
    BY <2>2, <2>5, <2>7, <2>8, <2>9, <2>10
<1> QED
  BY <1>1, DashboardInvariant, PTL DEF Spec, ActsOnTheMarked

\* A process is deleted only by the dialog on the screen that names it, and confirmed.
THEOREM DeletesTheConfirmedProcess == Spec => DeletesTheConfirmed
<1> DEFINE Confirmed ==
      asked' # asked /\ asked' # NONE /\ asked'.verb = "delete" /\ frame.kind # "small" =>
          /\ frame.dialog # NONE /\ frame.dialog.target = asked'.target
          /\ \/ event' \in {Key("y"), Click("delete")}
             \/ event' = Key("enter") /\ frame.dialog.choice = "delete"
<1>1. DashboardInv /\ [Next]_vars => [Confirmed]_vars
  <2> SUFFICES ASSUME DashboardInv, [Next]_vars, asked' # asked, asked' # NONE,
                      asked'.verb = "delete", frame.kind # "small"
               PROVE  /\ frame.dialog # NONE /\ frame.dialog.target = asked'.target
                      /\ \/ event' \in {Key("y"), Click("delete")}
                         \/ event' = Key("enter") /\ frame.dialog.choice = "delete"
    OBVIOUS
  <2>1. Input
    BY LoopAsksNothing DEF Next
  <2>2. /\ asked'.target = state.confirm.target /\ state.confirm # NONE
        /\ \/ event' \in {Key("y"), Click("delete")}
           \/ event' = Key("enter") /\ state.confirm.choice = "delete"
    BY <2>1, InputAsks DEF Request
  <2>3. frame = Frame(processes)
    BY <2>1, InputHandled, FrameRead
  <2>4. state.viewer = NONE
    BY <2>2, StateParts DEF Apart
  <2>5. Kind = "fleet"
    BY <2>3, <2>4 DEF Frame, Kind
  <2>6. frame.dialog = state.confirm
    BY <2>3, <2>5 DEF Frame, Dialog
  <2> QED
    BY <2>2, <2>6
<1> QED
  BY <1>1, DashboardInvariant, PTL DEF Spec, DeletesTheConfirmed

\* Only a click on a row is an event of that kind.
LEMMA RowEvents ==
    ASSUME Input, event'.kind = "row"
    PROVE  \E i \in 0 .. MaxId : ClickRow(i) /\ event' = Row(i)
<1>1. ASSUME NEW k, Read(Key(k)) PROVE event'.kind = "key"
  BY <1>1 DEF Read, Key
<1>2. ASSUME NEW b, Read(Click(b)) PROVE event'.kind = "button"
  BY <1>2 DEF Read, Click
<1>3. ASSUME NEW w \in {"up", "down"}, Turn(w) PROVE event'.kind = "wheel"
  BY <1>3 DEF Turn, Read, Wheel
<1>4. ASSUME NEW z \in Sizes, Resize(z) PROVE event'.kind = "resize"
  BY <1>4 DEF Resize, Read
<1>5. ASSUME NEW i \in 0 .. MaxId, ClickRow(i) PROVE event' = Row(i)
  BY <1>5 DEF ClickRow, Read
<1>6. ASSUME NEW k,
             \/ SearchKey(k) \/ FormKey(k) \/ ConfirmKey(k) \/ ViewerKey(k)
             \/ HelpKey(k) \/ MenuKey(k) \/ ViewKey(k) \/ ActionKey(k)
      PROVE  Read(Key(k))
  BY <1>6 DEF SearchKey, FormKey, ConfirmKey, ViewerKey, HelpKey, MenuKey, ViewKey, ActionKey
<1>7. ASSUME NEW b, ClickButton(b) PROVE Read(Click(b))
  BY <1>7 DEF ClickButton
<1>8. ClickOverlay => Read(Click("anywhere"))
  BY DEF ClickOverlay
<1>9. \/ \E k : \/ SearchKey(k) \/ FormKey(k) \/ ConfirmKey(k) \/ ViewerKey(k)
                \/ HelpKey(k) \/ MenuKey(k) \/ ViewKey(k) \/ ActionKey(k)
      \/ \E i \in 0 .. MaxId : ClickRow(i)
      \/ \E b : ClickButton(b)
      \/ ClickOverlay
      \/ \E w \in {"up", "down"} : Turn(w)
      \/ \E z \in Sizes : Resize(z)
  BY DEF Input
<1> QED
  BY <1>1, <1>2, <1>3, <1>4, <1>5, <1>6, <1>7, <1>8, <1>9

\* The drawn rows are those of the list from the first one shown.
LEMMA DrawnRows ==
    ASSUME DashboardInv, pc = "input", NEW i \in Nat, i < Len(frame.rows)
    PROVE  LET rows == Visible(processes, state)
               r    == RowClicked(i)
           IN  r \in Nat /\ r < Len(rows) /\ frame.rows[i + 1] = rows[r + 1]
<1>v. PICK rows : rows = Visible(processes, state)
  OBVIOUS
<1>a. PICK a : a = StartIndex
  OBVIOUS
<1>h. PICK h : h = Low(Len(rows), StartIndex + TableRows)
  OBVIOUS
<1>1. frame = Frame(processes) /\ frame.start = a /\ a \in Nat
  BY <1>a, FrameRead
<1>2. rows \in Seq(Process) /\ Len(rows) \in Nat
  BY <1>v, StateParts, RowsTyped
<1>3. TableRows \in Nat /\ h \in Nat /\ h <= Len(rows)
  <2>1. size.height \in Nat /\ Chrome \in Nat
    BY DashboardAssumption DEF DashboardInv
  <2>2. TableRows \in Nat
    BY <2>1 DEF TableRows, High, Less
  <2> QED
    BY <1>1, <1>2, <1>a, <1>h, <2>2 DEF Low
<1>4. frame.rows = SubSeq(rows, a + 1, h)
  <2>1. frame.rows = TableDrawn(processes)
    BY <1>1 DEF Frame
  <2>2. Fits(processes)
    <3> SUFFICES ASSUME ~Fits(processes) PROVE FALSE
      OBVIOUS
    <3>1. frame.rows = <<>>
      BY <2>1 DEF TableDrawn
    <3>2. Len(frame.rows) = 0
      BY <3>1
    <3> QED
      BY <3>2
  <2>3. TableDrawn(processes) = SubSeq(rows, a + 1, h)
    BY <1>a, <1>h, <1>v, <2>2 DEF TableDrawn
  <2> QED
    BY <2>1, <2>3
<1>5. /\ Len(frame.rows) = IF a + 1 <= h THEN h - (a + 1) + 1 ELSE 0
      /\ \A j \in 1 .. (h - (a + 1) + 1) : frame.rows[j] = rows[(a + 1) + j - 1]
  <2>1. \A j \in a + 1 .. h : rows[j] \in Process
    BY <1>1, <1>2, <1>3, ElementOfSeq
  <2>2. a + 1 \in Int /\ h \in Int
    BY <1>1, <1>3
  <2> QED
    BY <1>4, <2>1, <2>2, SubSeqProperties
<1>6. a + i + 1 <= h /\ i + 1 \in 1 .. (h - (a + 1) + 1)
  BY <1>1, <1>3, <1>5
<1>7. frame.rows[i + 1] = rows[(a + 1) + (i + 1) - 1]
  BY <1>5, <1>6
<1>r. PICK r : r = RowClicked(i)
  OBVIOUS
<1>8. r = a + i
  BY <1>1, <1>r DEF RowClicked
<1>9. r \in Nat /\ r < Len(rows) /\ (a + 1) + (i + 1) - 1 = r + 1
  BY <1>1, <1>2, <1>3, <1>6, <1>8
<1>10. frame.rows[i + 1] = rows[r + 1]
  BY <1>7, <1>9
<1> QED
  BY <1>9, <1>10, <1>r, <1>v

\* A click on a row of the table selects the process that is drawn in that row.
THEOREM ClickSelectsTheDrawnProcess == Spec => ClickSelectsTheDrawn
<1> DEFINE Selects ==
      event' # event /\ event' # NONE /\ event'.kind = "row" /\ event'.row < Len(frame.rows) =>
          Target(processes, state)' = frame.rows[event'.row + 1].name
<1>1. DashboardInv /\ [Next]_vars => [Selects]_vars
  <2> SUFFICES ASSUME DashboardInv, [Next]_vars, event' # event, event' # NONE,
                      event'.kind = "row", event'.row < Len(frame.rows)
               PROVE  Target(processes, state)' = frame.rows[event'.row + 1].name
    OBVIOUS
  <2>1. Input
    BY DEF Next, OtherClient, Loop, Fetch, FetchFails, NotDue, Draw, NoInput, PruneFlash, vars
  <2>2. PICK i \in 0 .. MaxId : ClickRow(i) /\ event' = Row(i)
    BY <2>1, RowEvents
  <2>v. PICK rows : rows = Visible(processes, state)
    OBVIOUS
  <2>r. PICK r : r = RowClicked(i)
    OBVIOUS
  <2>3. i \in Nat /\ event'.row = i
    BY <2>2, DashboardAssumption DEF Row
  <2>4. pc = "input" /\ processes' = processes
    BY <2>1, InputHandled
  <2>5. r \in Nat /\ r < Len(rows) /\ frame.rows[i + 1] = rows[r + 1]
    BY <2>3, <2>4, <2>r, <2>v, DrawnRows
  <2>6. state \in State
    BY StateParts
  <2>7. \/ state' = [state EXCEPT !.selected = r]
        \/ state' = state /\ state.selected = r
    BY <2>2, <2>5, <2>r, <2>v DEF ClickRow, Ignore
  <2>8. /\ state'.selected = r /\ state'.filter = state.filter /\ state'.query = state.query
        /\ state'.sort = state.sort
    BY <2>6, <2>7 DEF State
  <2>9. Visible(processes, state') = rows
    BY <2>8, <2>v, SameRows
  <2>10. Target(processes, state') = rows[r + 1].name
    BY <2>5, <2>8, <2>9 DEF Target
  <2>11. Target(processes, state)' = Target(processes, state')
    BY <2>4 DEF Target, Visible
  <2> QED
    BY <2>3, <2>5, <2>10, <2>11
<1> QED
  BY <1>1, DashboardInvariant, PTL DEF Spec, ClickSelectsTheDrawn
=============================================================================
