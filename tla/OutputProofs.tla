---------------------------- MODULE OutputProofs ----------------------------
(***************************************************************************)
(* What is proved of Output, for any sizes, capacities, and number of      *)
(* children and lines.                                                     *)
(***************************************************************************)
EXTENDS Output, FiniteSetTheorems, SequenceTheorems, TLAPS

-----------------------------------------------------------------------------
(* The invariant.                                                          *)

Report   == [child : Nat \cup {NONE}, tail : Seq(Nat), at : Nat]
Follower == [pc : {"off", "missing", "made", "on"}, inode : Nat \cup {NONE}, pos : Nat,
             shown : Seq(Nat), since : Nat, until : Nat]
Sub      == [pc : {"off", "filter", "on"}, from : Nat, next : Nat, got : SUBSET Nat,
             missed : Nat]

Shape ==
    /\ files \in [Names -> Inodes \cup {NONE}]
    /\ content \in Seq(Seq(Nat))
    /\ aged \in SUBSET Inodes
    /\ said \in Seq(Nat)
    /\ inflight \in SUBSET [line : Lines, inode : Inodes]
    /\ spawned \in Nat
    /\ buffer \in Seq(Nat)
    /\ managed \in (1..spawned) \cup {NONE}
    /\ report \in Report
    /\ follower \in Follower
    /\ sub \in Sub

\* The log itself is the newest inode, and larger suffixes are of older ones.
Ranked ==
    /\ files[0] \in {NONE, Len(content)}
    /\ \A i, j \in Names : i < j /\ files[i] # NONE /\ files[j] # NONE => files[i] > files[j]

\* Line n is in inode i, or on its way there.
Landed(n, i)  == \E k \in 1..Len(content[i]) : content[i][k] = n
Heading(n, i) == \E w \in inflight : w.inode = i /\ w.line = n
At(n, i)      == Landed(n, i) \/ Heading(n, i)

\* Later lines are in the same or in newer inodes, each in one.
Placed ==
    /\ \A i \in Inodes : \A n \in Nat : At(n, i) => n \in Lines
    /\ \A i, j \in Inodes : \A m, n \in Nat : At(m, i) /\ At(n, j) /\ m <= n => i <= j

\* A line is written once, and no more once it has landed.
Once ==
    /\ \A i \in Inodes : \A k, l \in 1..Len(content[i]) : content[i][k] = content[i][l] => k = l
    /\ \A w \in inflight : \A i \in Inodes : ~Landed(w.line, i)
    /\ \A v, w \in inflight : v.line = w.line => v = w

\* Retention removes the oldest first, and leaves no gap between rotated files.
Dated ==
    /\ \A i \in aged : \A j \in 1..i : j \in aged
    /\ \A i \in aged : \A w \in inflight : i <= w.inode
    /\ \A i, j \in 1..MaxFiles : i < j /\ files[j] # NONE => files[i] # NONE

\* What is lost was emptied by the follower, which looked for the file before.
Saved ==
    /\ \A n \in Lines :
          (\E i \in Inodes : At(n, i)) \/ (n > follower.since /\ n <= follower.until)
    /\ follower.since <= Len(said)
    /\ follower.pc \in {"off", "missing"} => follower.until = 0
    /\ follower.pc = "missing" /\ files[0] # NONE =>
          \A n \in Nat : At(n, files[0]) => n > follower.since

\* The follower has shown lines that landed in older inodes, or before its place.
Shown(n) ==
    \E i \in 1..follower.inode : \E k \in 1..Len(content[i]) :
        content[i][k] = n /\ (i = follower.inode => k <= follower.pos)

Following ==
    /\ follower.pc # "on" => follower.shown = <<>>
    /\ follower.pc = "on" =>
          /\ follower.inode \in Inodes /\ follower.pos <= Len(content[follower.inode])
          /\ \A k \in 1..Len(follower.shown) : Shown(follower.shown[k])
    /\ \A k, l \in 1..Len(follower.shown) : follower.shown[k] = follower.shown[l] => k = l

Subscribed ==
    /\ IsFiniteSet(sub.got)
    /\ \A n \in sub.got : n < sub.next
    /\ sub.pc = "off" => sub.got = {} /\ sub.missed = 0
    /\ sub.pc # "off" =>
          /\ sub.from > 0 /\ sub.from <= sub.next
          /\ Cardinality(sub.got) + sub.missed = sub.next - sub.from

\* The last lines of a child, of the first `at` ones of `lines`.
Latest(lines, tail, child, at) ==
    /\ \A k \in 1..Len(tail) : tail[k] \in 1..at /\ lines[tail[k]] = child
    /\ \A k, l \in 1..Len(tail) : k < l => tail[k] < tail[l]
    /\ Len(tail) <= TailCapacity
    /\ \A n \in 1..at : lines[n] = child =>
          \/ \E k \in 1..Len(tail) : tail[k] = n
          \/ Len(tail) = TailCapacity /\ \A k \in 1..Len(tail) : n < tail[k]

\* The buffer is drained for a report, of a child that has not been reported yet.
Reported ==
    /\ \A n \in Lines : said[n] \in 1..spawned
    /\ report.child = NONE \/ report.child \in 0..spawned
    /\ report.at <= Len(said)
    /\ managed # NONE => report.child # spawned
    /\ report.child # spawned => Latest(said, buffer, spawned, Len(said))
    /\ Latest(said, report.tail, report.child, report.at)

OutputInv ==
    Shape /\ Ranked /\ Placed /\ Once /\ Dated /\ Saved /\ Following /\ Subscribed /\ Reported

-----------------------------------------------------------------------------
(* What the steps do to the files.                                         *)

\* The log exists once it has been opened, as the newest inode.
LEMMA MadeOpens ==
    ASSUME Shape, Ranked, Made
    PROVE  /\ content' \in Seq(Seq(Nat)) /\ Opened = Len(content')
           /\ Len(content') \in {Len(content), Len(content) + 1} /\ Opened \in Inodes'
           /\ Inodes' = Inodes \cup {Opened}
           /\ \A i \in Inodes : content'[i] = content[i]
           /\ \A i \in Inodes' \ Inodes : content'[i] = <<>>
           /\ files' \in [Names -> Inodes' \cup {NONE}]
           /\ files'[0] = Opened
           /\ \A i \in Names \ {0} : files'[i] = files[i]
<1>0. 0 \in Names /\ Len(content) \in Nat /\ NONE \notin Nat
  BY OutputAssumption DEF Names, Shape
<1>1. CASE files[0] = NONE
  <2>1. content' = Append(content, <<>>) /\ files' = [files EXCEPT ![0] = Opened]
        /\ Opened = Len(content) + 1
    BY <1>1 DEF Made, Opened
  <2>2. /\ content' \in Seq(Seq(Nat)) /\ Len(content') = Len(content) + 1
        /\ \A i \in Inodes : content'[i] = content[i]
        /\ content'[Len(content) + 1] = <<>>
    BY <2>1, AppendProperties, <<>> \in Seq(Nat) DEF Shape, Inodes
  <2>3. Inodes' = Inodes \cup {Len(content) + 1}
    BY <1>0, <2>2 DEF Inodes
  <2> QED
    BY <1>0, <2>1, <2>2, <2>3 DEF Shape, Inodes
<1>2. CASE files[0] # NONE
  <2>1. UNCHANGED <<files, content>> /\ Opened = files[0]
    BY <1>2 DEF Made, Opened
  <2> QED
    BY <1>0, <1>2, <2>1 DEF Shape, Ranked, Inodes
<1> QED
  BY <1>1, <1>2

\* A write that lands stays where it was heading.
LEMMA LandMoves ==
    ASSUME Shape, NEW w \in inflight, Land(w)
    PROVE  /\ w \in [line : Lines, inode : Inodes] /\ w.line \in Nat /\ w.inode \in Inodes
           /\ content' \in Seq(Seq(Nat)) /\ Len(content') = Len(content) /\ Inodes' = Inodes
           /\ \A i \in Inodes \ {w.inode} : content'[i] = content[i]
           /\ content[w.inode] \in Seq(Nat)
           /\ Len(content'[w.inode]) = Len(content[w.inode]) + 1
           /\ \A k \in 1..Len(content[w.inode]) : content'[w.inode][k] = content[w.inode][k]
           /\ content'[w.inode][Len(content[w.inode]) + 1] = w.line
<1>1. w \in [line : Lines, inode : Inodes] /\ w.inode \in Inodes /\ w.line \in Nat
  BY DEF Shape, Lines
<1>2. content[w.inode] \in Seq(Nat)
  BY <1>1, ElementOfSeq DEF Shape, Inodes
<1>3. content' = [content EXCEPT ![w.inode] = Append(content[w.inode], w.line)]
  BY DEF Land
<1>4. /\ Append(content[w.inode], w.line) \in Seq(Nat)
      /\ Len(Append(content[w.inode], w.line)) = Len(content[w.inode]) + 1
      /\ \A k \in 1..Len(content[w.inode]) :
            Append(content[w.inode], w.line)[k] = content[w.inode][k]
      /\ Append(content[w.inode], w.line)[Len(content[w.inode]) + 1] = w.line
  BY <1>1, <1>2, AppendProperties
<1>5. /\ content' \in Seq(Seq(Nat)) /\ Len(content') = Len(content)
      /\ \A i \in Inodes : content'[i] = IF i = w.inode THEN Append(content[w.inode], w.line)
                                                        ELSE content[i]
  BY <1>1, <1>3, <1>4, ExceptSeq DEF Shape, Inodes
<1> QED
  BY <1>1, <1>2, <1>4, <1>5 DEF Inodes

\* Where a line is, before and after each step.
LEMMA LandAt ==
    ASSUME Shape, NEW w \in inflight, Land(w), NEW n \in Nat, NEW i \in Inodes
    PROVE  /\ Landed(n, i)' <=> Landed(n, i) \/ (n = w.line /\ i = w.inode)
           /\ At(n, i)' <=> At(n, i)
<1>1. Landed(n, i)' <=> Landed(n, i) \/ (n = w.line /\ i = w.inode)
  <2>1. CASE i # w.inode
    BY <2>1, LandMoves DEF Landed
  <2>2. CASE i = w.inode
    <3>1. Len(content[i]) \in Nat
      BY <2>2, LandMoves, LenProperties
    <3> DEFINE len == Len(content[i])
    <3>2. /\ Len(content'[i]) = len + 1
          /\ \A k \in 1..len : content'[i][k] = content[i][k]
          /\ content'[i][len + 1] = w.line
      BY <2>2, LandMoves
    <3>3. 1..(len + 1) = (1..len) \cup {len + 1}
      BY <3>1
    <3>4. Landed(n, i) = \E k \in 1..len : content[i][k] = n
      BY DEF Landed
    <3> HIDE DEF len
    <3> QED
      BY <2>2, <3>2, <3>3, <3>4 DEF Landed
  <2> QED
    BY <2>1, <2>2
<1>2. Heading(n, i)' <=> \E v \in inflight \ {w} : v.inode = i /\ v.line = n
  BY DEF Heading, Land
<1>3. Heading(n, i) <=> Heading(n, i)' \/ (n = w.line /\ i = w.inode)
  BY <1>2 DEF Heading
<1> QED
  BY <1>1, <1>3 DEF At

\* The line a child prints heads for the log that was opened, and no other line moves.
LEMMA ForwardAt ==
    ASSUME Shape, Ranked, NEW c, Forward(c), NEW n \in Nat, NEW o, o = Opened
    PROVE  /\ \A i \in Inodes : Landed(n, i)' <=> Landed(n, i)
           /\ \A i \in Inodes : At(n, i)' <=> At(n, i) \/ (n = Len(said) + 1 /\ i = o)
           /\ o \notin Inodes => ~Landed(n, o)' /\ (At(n, o)' <=> n = Len(said) + 1)
<1> DEFINE new == [line |-> Len(said) + 1, inode |-> o]
<1>1. Made /\ inflight' = inflight \cup {new}
  BY DEF Forward
<1>2. \A i \in Inodes : Landed(n, i)' <=> Landed(n, i)
  BY <1>1, MadeOpens DEF Landed
<1>3. \A i : Heading(n, i)' <=> Heading(n, i) \/ (n = Len(said) + 1 /\ i = o)
  <2>1. new.line = Len(said) + 1 /\ new.inode = o
    OBVIOUS
  <2> HIDE DEF new
  <2> QED
    BY <1>1, <2>1 DEF Heading
<1>4. ASSUME o \notin Inodes
      PROVE  ~Landed(n, o)' /\ ~Heading(n, o)
  <2>1. content'[o] = <<>>
    BY <1>1, <1>4, MadeOpens
  <2>2. ~Heading(n, o)
    BY <1>4 DEF Heading, Shape
  <2>3. ~Landed(n, o)'
    BY <2>1, Len(<<>>) = 0 DEF Landed
  <2> QED
    BY <2>2, <2>3
<1>5. \A i : At(n, i)' <=> Landed(n, i)' \/ Heading(n, i)'
  BY DEF At
<1>6. \A i : At(n, i) <=> Landed(n, i) \/ Heading(n, i)
  BY DEF At
<1> QED
  BY <1>2, <1>3, <1>4, <1>5, <1>6

\* A follower that makes the log empties at most the file that has its name by then.
LEMMA CreateAt ==
    ASSUME Shape, Ranked, FollowCreate, NEW n \in Nat
    PROVE  /\ Inodes' = Inodes \cup {Len(content')} /\ content' \in Seq(Seq(Nat))
           /\ Len(content') \in Nat
           /\ \A i \in Inodes' : content'[i] = <<>> \/ (i \in Inodes /\ content'[i] = content[i])
           /\ \A i \in Inodes : Landed(n, i)' => Landed(n, i)
           /\ \A i \in Inodes : At(n, i)' => At(n, i)
           /\ \A i \in Inodes : At(n, i) => At(n, i)' \/ i = files[0]
           /\ \A i \in Inodes' \ Inodes : ~At(n, i)' /\ ~Landed(n, i)'
<1>1. CASE files[0] = NONE
  <2>1. Made /\ UNCHANGED inflight
    BY <1>1 DEF FollowCreate
  <2>2. \A i : Heading(n, i)' <=> Heading(n, i)
    BY <2>1 DEF Heading
  <2>3. \A i \in Inodes : Landed(n, i)' <=> Landed(n, i)
    BY <2>1, MadeOpens DEF Landed
  <2>4. \A i \in Inodes' \ Inodes : ~Heading(n, i) /\ ~Landed(n, i)'
    BY <2>1, MadeOpens DEF Heading, Landed, Shape
  <2> QED
    BY <2>1, <2>2, <2>3, <2>4, MadeOpens, LenProperties DEF At
<1>2. CASE files[0] # NONE
  <2>1. content' = [content EXCEPT ![files[0]] = <<>>] /\ UNCHANGED inflight
    BY <1>2 DEF FollowCreate
  <2>2. files[0] \in Inodes /\ files[0] = Len(content) /\ Len(content) \in Nat
    BY <1>2, OutputAssumption DEF Ranked, Shape, Names, Inodes
  <2>3. /\ content' \in Seq(Seq(Nat)) /\ Len(content') = Len(content)
        /\ \A i \in Inodes : content'[i] = IF i = files[0] THEN <<>> ELSE content[i]
    BY <2>1, <2>2, ExceptSeq, <<>> \in Seq(Nat) DEF Shape, Inodes
  <2>4. Inodes' = Inodes
    BY <2>3 DEF Inodes
  <2>5. \A i : Heading(n, i)' <=> Heading(n, i)
    BY <2>1 DEF Heading
  <2>6. \A i \in Inodes : IF i = files[0] THEN ~Landed(n, i)' ELSE Landed(n, i)' <=> Landed(n, i)
    BY <2>3 DEF Landed
  <2> QED
    BY <2>2, <2>3, <2>4, <2>5, <2>6 DEF At
<1> QED
  BY <1>1, <1>2

-----------------------------------------------------------------------------
(* The steps keep the types.                                               *)

\* Rotation and retention keep, move or drop names.
LEMMA KeptNames ==
    ASSUME Shape
    PROVE  Kept(Rotated) \in [Names -> Inodes \cup {NONE}]
<1>1. Rotated \in [Names -> Inodes \cup {NONE}]
  BY OutputAssumption DEF Rotated, Shifted, Shape, Names
<1> QED
  BY <1>1 DEF Kept

\* What pushing a line does to the stderr buffer: it grows until full, then moves up.
LEMMA PushedShape ==
    ASSUME Shape, NEW line \in Nat
    PROVE  /\ Pushed(line) \in Seq(Nat)
           /\ Len(buffer) < TailCapacity =>
                /\ Len(Pushed(line)) = Len(buffer) + 1
                /\ \A k \in 1..Len(buffer) : Pushed(line)[k] = buffer[k]
                /\ Pushed(line)[Len(buffer) + 1] = line
           /\ Len(buffer) >= TailCapacity =>
                /\ Len(Pushed(line)) = Len(buffer)
                /\ \A k \in 1..(Len(buffer) - 1) : Pushed(line)[k] = buffer[k + 1]
                /\ Pushed(line)[Len(buffer)] = line
<1>1. buffer \in Seq(Nat) /\ Len(buffer) \in Nat /\ TailCapacity \in Nat \ {0}
  BY OutputAssumption, LenProperties DEF Shape
<1>2. CASE Len(buffer) < TailCapacity
  <2>1. Pushed(line) = Append(buffer, line)
    BY <1>1, <1>2 DEF Pushed
  <2> QED
    BY <1>1, <1>2, <2>1, AppendProperties
<1>3. CASE Len(buffer) >= TailCapacity
  <2>1. Pushed(line) = Append(Tail(buffer), line)
    BY <1>1, <1>3 DEF Pushed
  <2>2. buffer # <<>>
    BY <1>1, <1>3
  <2>3. /\ Tail(buffer) \in Seq(Nat) /\ Len(Tail(buffer)) = Len(buffer) - 1
        /\ \A k \in 1..Len(Tail(buffer)) : Tail(buffer)[k] = buffer[k + 1]
    BY <1>1, <2>2, HeadTailProperties
  <2> DEFINE rest == Tail(buffer)
  <2>4. /\ Pushed(line) \in Seq(Nat) /\ Len(Pushed(line)) = Len(rest) + 1
        /\ \A k \in 1..Len(rest) : Pushed(line)[k] = rest[k]
        /\ Pushed(line)[Len(rest) + 1] = line
    BY <2>1, <2>3, AppendProperties
  <2> HIDE DEF rest
  <2>5. Len(rest) = Len(buffer) - 1 /\ Len(rest) + 1 = Len(buffer)
    BY <1>1, <2>3 DEF rest
  <2>6. \A k \in 1..(Len(buffer) - 1) : rest[k] = buffer[k + 1]
    BY <2>3, <2>5 DEF rest
  <2> QED
    BY <1>1, <1>3, <2>4, <2>5, <2>6
<1> QED
  BY <1>1, <1>2, <1>3

\* Every step keeps the types.
LEMMA ShapeStep == OutputInv /\ [Next]_vars => Shape'
<1> SUFFICES ASSUME OutputInv, [Next]_vars PROVE Shape'
  OBVIOUS
<1>0. /\ Shape /\ Ranked /\ Len(said) \in Nat /\ Len(content) \in Nat /\ 0 \in Names
      /\ \A i \in Inodes : content[i] \in Seq(Nat) /\ Len(content[i]) \in Nat
  BY OutputAssumption, LenProperties, ElementOfSeq DEF OutputInv, Shape, Names, Inodes
<1>1. CASE Spawn
  <2>1. files' \in [Names -> Inodes \cup {NONE}]
    BY <1>0, <1>1, KeptNames DEF Spawn
  <2> QED
    BY <1>0, <1>1, <2>1 DEF Spawn, Shape, Inodes, Lines, watchers
<1>2. CASE Adopt
  BY <1>0, <1>2 DEF Adopt, Watch, Shape, Inodes, Lines, watchers, disk
<1>3. CASE Crash
  BY <1>0, <1>3 DEF Crash, Watch, Shape, Report, Inodes, Lines, disk
<1>4. ASSUME NEW c \in 1..spawned, Forward(c) PROVE Shape'
  <2>1. Made
    BY <1>4 DEF Forward
  <2>2. said' \in Seq(Nat) /\ Len(said') = Len(said) + 1
    BY <1>0, <1>4, AppendProperties DEF Forward, Shape
  <2>3. Lines' = Lines \cup {Len(said) + 1}
    BY <1>0, <2>2 DEF Lines
  <2>4. inflight' \in SUBSET [line : Lines', inode : Inodes']
    BY <1>0, <1>4, <2>1, <2>3, MadeOpens DEF Forward, Shape
  <2>5. buffer' \in Seq(Nat)
    BY <1>0, <1>4, PushedShape DEF Forward, Buffered, Shape
  <2> QED
    BY <1>0, <1>4, <2>1, <2>2, <2>4, <2>5, MadeOpens DEF Forward, Shape, watchers
<1>5. ASSUME NEW w \in inflight, Land(w) PROVE Shape'
  BY <1>0, <1>5, LandMoves DEF Land, Shape, Lines, children, watchers
<1>6. ASSUME NEW i \in Inodes, Age(i) PROVE Shape'
  BY <1>0, <1>6 DEF Age, Shape, Inodes, Lines, children, watchers
<1>7. CASE Follow
  <2>1. files[0] \in Inodes /\ files[0] \in Nat /\ Len(content[files[0]]) \in Nat
    BY <1>0, <1>7 DEF Follow, Shape, Inodes
  <2>2. follower' \in Follower
    BY <1>0, <1>7, <2>1 DEF Follow, Reading, Shape, Follower
  <2> QED
    BY <1>0, <1>7, <2>2 DEF Follow, Watch, Shape, Inodes, Lines, disk, children
<1>8. CASE FollowMissing
  BY <1>0, <1>8 DEF FollowMissing, Watch, Shape, Follower, Inodes, Lines, disk, children
<1>9. CASE FollowCreate
  <2>1. files' \in [Names -> Inodes' \cup {NONE}] /\ aged' \in SUBSET Inodes'
    BY <1>0, <1>9, CreateAt, MadeOpens DEF FollowCreate, Shape
  <2>2. inflight' \in SUBSET [line : Lines', inode : Inodes']
    BY <1>0, <1>9, CreateAt DEF FollowCreate, Shape, Lines
  <2>3. follower' \in Follower
    BY <1>0, <1>9 DEF FollowCreate, Shape, Follower
  <2> QED
    BY <1>0, <1>9, <2>1, <2>2, <2>3, CreateAt DEF FollowCreate, Shape, children, Watch
<1>10. CASE Read
  <2> DEFINE lines == content[follower.inode]
  <2>a. lines \in Seq(Nat) /\ Len(lines) \in Nat /\ follower.pos \in Nat
    BY <1>0, <1>10 DEF Read, OutputInv, Following, Shape, Follower
  <2>b. \A k \in (follower.pos + 1)..Len(lines) : lines[k] \in Nat
    BY <2>a, ElementOfSeq
  <2>1. SubSeq(lines, follower.pos + 1, Len(lines)) \in Seq(Nat)
    BY <2>a, <2>b, SubSeqProperties
  <2>2. follower' \in Follower
    BY <1>0, <1>10, <2>a, <2>1, ConcatProperties DEF Read, Shape, Follower
  <2> QED
    BY <1>0, <1>10, <2>2 DEF Read, Watch, Shape, Inodes, Lines, disk, children
<1>11. CASE Reopen
  <2>1. files[0] \in Inodes /\ files[0] \in Nat
    BY <1>0, <1>11 DEF Reopen, Shape, Inodes
  <2>2. follower' \in Follower
    BY <1>0, <1>11, <2>1 DEF Reopen, Reading, Shape, Follower
  <2> QED
    BY <1>0, <1>11, <2>2 DEF Reopen, Watch, Shape, Inodes, Lines, disk, children
<1>12. CASE Subscribe \/ FilterRead \/ Deliver \/ Lagged
  <2>1. sub' \in Sub
    <3>1. BusCapacity \in Nat /\ Oldest \in Nat
      BY <1>0, OutputAssumption DEF Oldest
    <3>0. sub \in Sub /\ Len(said) + 1 \in Nat
      BY <1>0 DEF Shape
    <3>2. CASE Subscribe
      <4>1. sub' = [sub EXCEPT !.pc = "filter", !.from = Len(said) + 1, !.next = Len(said) + 1]
        BY <3>2 DEF Subscribe, Connected
      <4> QED
        BY <3>0, <4>1 DEF Sub
    <3>3. CASE FilterRead
      <4> DEFINE next == IF sub.next = 0 THEN Len(said) + 1 ELSE sub.next
      <4>1. sub' = [sub EXCEPT !.pc = "on", !.next = next]
        BY <3>3 DEF FilterRead
      <4>2. next \in Nat
        BY <3>0 DEF Sub
      <4> HIDE DEF next
      <4> QED
        BY <3>0, <4>1, <4>2 DEF Sub
    <3>4. CASE Deliver
      <4>1. sub.got \cup {sub.next} \in SUBSET Nat /\ sub.next + 1 \in Nat
        BY <3>0 DEF Sub
      <4>2. sub' = [sub EXCEPT !.got = sub.got \cup {sub.next}, !.next = sub.next + 1]
        BY <3>4 DEF Deliver
      <4> QED
        BY <3>0, <4>1, <4>2 DEF Sub
    <3>5. CASE Lagged
      <4>1. sub.missed + (Oldest - sub.next) \in Nat
        BY <1>0, <3>1, <3>5 DEF Lagged, Shape, Sub
      <4> QED
        BY <1>0, <3>1, <3>5, <4>1 DEF Lagged, Shape, Sub
    <3> QED
      BY <1>12, <3>2, <3>3, <3>4, <3>5
  <2> QED
    BY <1>0, <1>12, <2>1
    DEF Subscribe, FilterRead, Deliver, Lagged, Watch, Shape, Inodes, Lines, disk, children
<1>13. CASE UNCHANGED vars
  BY <1>0, <1>13 DEF vars, Shape, Inodes, Lines
<1> QED
  BY <1>1, <1>2, <1>3, <1>4, <1>5, <1>6, <1>7, <1>8, <1>9, <1>10, <1>11, <1>12, <1>13 DEF Next

-----------------------------------------------------------------------------
(* The steps keep the order of the files and of the lines in them.         *)

Quiet == UNCHANGED <<files, content, aged, said, inflight>>

\* Only spawning, forwarding, landing, aging and File::create touch files and lines.
LEMMA DiskSteps ==
    ASSUME [Next]_vars
    PROVE  \/ Quiet \/ Spawn \/ \E c \in 1..spawned : Forward(c)
           \/ \E w \in inflight : Land(w)
           \/ \E i \in Inodes : Age(i)
           \/ FollowCreate
  BY DEF Next, vars, Quiet, disk, Adopt, Crash, Follow, FollowMissing, Read, Reopen, Subscribe,
         FilterRead, Deliver, Lagged

\* What a spawn does to each name.
LEMMA SpawnMoves ==
    ASSUME Shape, Spawn
    PROVE  /\ files'[0] = IF Full THEN NONE ELSE files[0]
           /\ files'[MaxFiles + 1] = NONE
           /\ \A i \in 1..MaxFiles :
                 LET k == IF Full THEN i - 1 ELSE i IN
                 files'[i] = IF files[k] \in aged THEN NONE ELSE files[k]
<1>0. MaxFiles \in Nat /\ 0 \in Names /\ MaxFiles + 1 \in Names /\ 1..MaxFiles \subseteq Names
  BY OutputAssumption DEF Names
<1>1. files' = Kept(Rotated)
  BY DEF Spawn
<1>2. \A i \in Names : files'[i] = IF i > 0 /\ (i > MaxFiles \/ Rotated[i] \in aged)
                                   THEN NONE ELSE Rotated[i]
  BY <1>1 DEF Kept
<1>3. Full => Rotated[0] = NONE /\ \A i \in 1..MaxFiles : Rotated[i] = files[i - 1]
  BY <1>0 DEF Rotated, Shifted
<1>4. ~Full => Rotated = files
  BY DEF Rotated
<1> QED
  BY <1>0, <1>2, <1>3, <1>4

\* No step puts an older file before a newer one.
LEMMA RankedStep == OutputInv /\ [Next]_vars => Ranked'
<1> SUFFICES ASSUME OutputInv, [Next]_vars PROVE Ranked'
  OBVIOUS
<1>0. /\ Shape /\ Ranked /\ Len(content) \in Nat /\ 0 \in Names /\ MaxFiles \in Nat
      /\ NONE \notin Nat
  BY OutputAssumption, LenProperties DEF OutputInv, Shape, Names
<1>1. CASE Spawn
  <2>1. files'[0] \in {NONE, Len(content)}
    BY <1>0, <1>1, SpawnMoves DEF Ranked
  <2>2. ASSUME NEW i \in Names, NEW j \in Names, i < j, files'[i] # NONE, files'[j] # NONE
        PROVE  files'[i] > files'[j]
    <3>1. j \in 1..MaxFiles /\ (i = 0 \/ i \in 1..MaxFiles)
      BY <1>0, <1>1, <2>2, SpawnMoves DEF Names
    <3>2. CASE Full
      <4>1. i # 0 /\ files'[i] = files[i - 1] /\ files'[j] = files[j - 1]
        BY <1>0, <1>1, <2>2, <3>1, <3>2, SpawnMoves
      <4>2. i - 1 \in Names /\ j - 1 \in Names /\ i - 1 < j - 1
        BY <1>0, <2>2, <3>1, <4>1 DEF Names
      <4> QED
        BY <1>0, <2>2, <4>1, <4>2 DEF Ranked
    <3>3. CASE ~Full
      <4>1. files'[i] = files[i] /\ files'[j] = files[j]
        BY <1>0, <1>1, <2>2, <3>1, <3>3, SpawnMoves
      <4> QED
        BY <1>0, <2>2, <4>1 DEF Ranked
    <3> QED
      BY <3>2, <3>3
  <2> QED
    BY <1>1, <2>1, <2>2 DEF Ranked, Spawn
<1>2. CASE Made
  <2>1. files'[0] = Len(content')
    BY <1>0, <1>2, MadeOpens
  <2>2. ASSUME NEW i \in Names, NEW j \in Names, i < j, files'[i] # NONE, files'[j] # NONE
        PROVE  files'[i] > files'[j]
    <3>1. j # 0 /\ files'[j] = files[j] /\ files[j] \in Inodes
      BY <1>0, <1>2, <2>2, MadeOpens DEF Names, Shape
    <3>2. CASE i # 0
      BY <1>0, <1>2, <2>2, <3>1, <3>2, MadeOpens DEF Ranked
    <3>3. CASE i = 0 /\ files[0] = NONE
      <4>1. files'[i] = Len(content) + 1
        BY <1>0, <1>2, <3>3, MadeOpens DEF Opened
      <4> QED
        BY <1>0, <3>1, <4>1 DEF Inodes
    <3>4. CASE i = 0 /\ files[0] # NONE
      BY <1>0, <1>2, <2>2, <3>1, <3>4 DEF Made, Ranked
    <3> QED
      BY <3>2, <3>3, <3>4
  <2> QED
    BY <2>1, <2>2 DEF Ranked
<1>3. ASSUME NEW c \in 1..spawned, Forward(c) PROVE Ranked'
  BY <1>2, <1>3 DEF Forward
<1>4. ASSUME NEW w \in inflight, Land(w) PROVE Ranked'
  BY <1>0, <1>4, LandMoves DEF Land, Ranked
<1>5. ASSUME NEW i \in Inodes, Age(i) PROVE Ranked'
  BY <1>0, <1>5 DEF Age, Ranked
<1>6. CASE FollowCreate
  <2>1. CASE files[0] = NONE
    BY <1>2, <1>6, <2>1 DEF FollowCreate
  <2>2. CASE files[0] # NONE
    <3>1. UNCHANGED files /\ content' = [content EXCEPT ![files[0]] = <<>>]
      BY <1>6, <2>2 DEF FollowCreate
    <3>2. Len(content') = Len(content)
      BY <1>0, <2>2, <3>1, ExceptSeq, <<>> \in Seq(Nat) DEF Shape, Inodes
    <3> QED
      BY <1>0, <3>1, <3>2 DEF Ranked
  <2> QED
    BY <2>1, <2>2
<1>7. CASE Quiet
  BY <1>0, <1>7 DEF Quiet, Ranked
<1> QED
  BY <1>1, <1>3, <1>4, <1>5, <1>6, <1>7, DiskSteps

\* No step puts a line into an older file than the lines before it.
LEMMA PlacedStep == OutputInv /\ [Next]_vars => Placed'
<1> SUFFICES ASSUME OutputInv, [Next]_vars PROVE Placed'
  OBVIOUS
<1>0. /\ Shape /\ Ranked /\ Placed /\ Len(content) \in Nat /\ Len(said) \in Nat
  BY LenProperties DEF OutputInv, Shape
<1>1. CASE Spawn \/ Quiet \/ \E i \in Inodes : Age(i)
  <2>1. UNCHANGED <<content, inflight, said>>
    BY <1>1 DEF Spawn, Quiet, Age
  <2> QED
    BY <1>0, <2>1 DEF Placed, At, Landed, Heading, Inodes, Lines
<1>2. ASSUME NEW c \in 1..spawned, Forward(c) PROVE Placed'
  <2>o. PICK o : o = Opened
    OBVIOUS
  <2> DEFINE new == Len(said) + 1
  <2>1. /\ o \in Inodes' /\ Inodes' = Inodes \cup {o} /\ o = Len(content')
        /\ Len(content') \in Nat /\ Inodes' = 1..Len(content')
    BY <1>0, <1>2, <2>o, MadeOpens DEF Forward, Inodes
  <2>2. Lines' = Lines \cup {new} /\ new \in Nat /\ \A n \in Lines : n < new
    BY <1>0, <1>2, AppendProperties DEF Forward, Lines, Shape
  <2>3. \A n \in Nat, i \in Inodes : At(n, i)' <=> At(n, i) \/ (n = new /\ i = o)
    BY <1>0, <1>2, <2>o, ForwardAt
  <2>4. o \notin Inodes => \A n \in Nat : At(n, o)' <=> n = new
    BY <1>0, <1>2, <2>o, ForwardAt
  <2> HIDE DEF new
  <2>5. \A n \in Nat, i \in Inodes' : At(n, i)' => (i \in Inodes /\ At(n, i)) \/ (n = new /\ i = o)
    BY <2>1, <2>3, <2>4
  <2>6. \A i \in Inodes' : i <= o
    BY <2>1
  <2>7. \A i \in Inodes' : \A n \in Nat : At(n, i)' => n \in Lines'
    BY <1>0, <2>2, <2>5 DEF Placed
  <2>8. ASSUME NEW i \in Inodes', NEW j \in Inodes', NEW m \in Nat, NEW n \in Nat,
               At(m, i)', At(n, j)', m <= n
        PROVE  i <= j
    <3>1. CASE j = o
      BY <2>6, <3>1
    <3>2. CASE j # o
      <4>1. j \in Inodes /\ At(n, j) /\ n \in Lines
        BY <1>0, <2>5, <2>8, <3>2 DEF Placed
      <4>2. m # new
        BY <2>2, <2>8, <4>1
      <4> QED
        BY <1>0, <2>5, <2>8, <4>1, <4>2 DEF Placed
    <3> QED
      BY <3>1, <3>2
  <2> QED
    BY <2>7, <2>8 DEF Placed
<1>3. ASSUME NEW w \in inflight, Land(w) PROVE Placed'
  <2>1. Inodes' = Inodes /\ Lines' = Lines
    BY <1>0, <1>3, LandMoves DEF Land, Lines
  <2>2. \A n \in Nat, i \in Inodes : At(n, i)' <=> At(n, i)
    BY <1>0, <1>3, LandAt
  <2> QED
    BY <1>0, <2>1, <2>2 DEF Placed
<1>4. CASE FollowCreate
  <2>1. Lines' = Lines
    BY <1>4 DEF FollowCreate, Lines
  <2>2. \A n \in Nat, i \in Inodes' : At(n, i)' => i \in Inodes /\ At(n, i)
    BY <1>0, <1>4, CreateAt
  <2> QED
    BY <1>0, <2>1, <2>2 DEF Placed
<1> QED
  BY <1>1, <1>2, <1>3, <1>4, DiskSteps

\* No step writes a line twice.
LEMMA OnceStep == OutputInv /\ [Next]_vars => Once'
<1> SUFFICES ASSUME OutputInv, [Next]_vars PROVE Once'
  OBVIOUS
<1>0. /\ Shape /\ Ranked /\ Placed /\ Once /\ Len(said) \in Nat
  BY LenProperties DEF OutputInv, Shape
<1>1. CASE Spawn \/ Quiet \/ \E i \in Inodes : Age(i)
  <2>1. UNCHANGED <<content, inflight>>
    BY <1>1 DEF Spawn, Quiet, Age
  <2> QED
    BY <1>0, <2>1 DEF Once, Landed, Inodes
<1>2. ASSUME NEW c \in 1..spawned, Forward(c) PROVE Once'
  <2>o. PICK o : o = Opened
    OBVIOUS
  <2> DEFINE new == Len(said) + 1
             added == [line |-> new, inode |-> o]
  <2>1. inflight' = inflight \cup {added} /\ added.line = new /\ new \in Nat \ Lines
    BY <1>0, <1>2, <2>o DEF Forward, Lines
  <2> HIDE DEF added
  <2>2. \A w \in inflight : w.line \in Lines /\ w.line \in Nat
    BY <1>0 DEF Shape, Lines
  <2>3. Inodes' = Inodes \cup {o}
    BY <1>0, <1>2, <2>o, MadeOpens DEF Forward
  <2>4. \A i \in Inodes : ~Landed(new, i)
    BY <1>0, <2>1 DEF Placed, At
  <2>5. \A n \in Nat : \A i \in Inodes' : Landed(n, i)' => i \in Inodes /\ Landed(n, i)
    BY <1>0, <1>2, <2>o, <2>3, ForwardAt
  <2>6. \A w \in inflight' : \A i \in Inodes' : ~Landed(w.line, i)'
    BY <1>0, <2>1, <2>2, <2>4, <2>5 DEF Once
  <2>7. \A v, w \in inflight' : v.line = w.line => v = w
    BY <1>0, <2>1, <2>2 DEF Once
  <2>8. \A i \in Inodes' : content'[i] = <<>> \/ (i \in Inodes /\ content'[i] = content[i])
    BY <1>0, <1>2, MadeOpens DEF Forward
  <2>9. \A i \in Inodes' : \A k, l \in 1..Len(content'[i]) :
            content'[i][k] = content'[i][l] => k = l
    BY <1>0, <2>8, Len(<<>>) = 0 DEF Once
  <2> QED
    BY <2>6, <2>7, <2>9 DEF Once
<1>3. ASSUME NEW w \in inflight, Land(w) PROVE Once'
  <2>1. Inodes' = Inodes /\ inflight' = inflight \ {w} /\ w.line \in Nat /\ w.inode \in Inodes
    BY <1>0, <1>3, LandMoves DEF Land
  <2>2. \A v \in inflight : v.line \in Nat
    BY <1>0 DEF Shape, Lines
  <2>3. \A v \in inflight' : \A i \in Inodes' : ~Landed(v.line, i)'
    BY <1>0, <1>3, <2>1, <2>2, LandAt DEF Once
  <2>4. ASSUME NEW i \in Inodes, NEW k \in 1..Len(content'[i]), NEW l \in 1..Len(content'[i]),
               content'[i][k] = content'[i][l]
        PROVE  k = l
    <3>1. CASE i # w.inode
      <4>1. content'[i] = content[i]
        BY <1>0, <1>3, <3>1, LandMoves
      <4> QED
        BY <1>0, <2>4, <4>1 DEF Once
    <3>2. CASE i = w.inode
      <4> DEFINE len == Len(content[i])
      <4>1. /\ len \in Nat /\ Len(content'[i]) = len + 1
            /\ \A q \in 1..len : content'[i][q] = content[i][q] /\ content[i][q] # w.line
            /\ content'[i][len + 1] = w.line
        BY <1>0, <1>3, <2>1, <3>2, LandMoves, LenProperties DEF Once, Landed
      <4>2. \A q, p \in 1..len : content[i][q] = content[i][p] => q = p
        BY <1>0 DEF Once
      <4> HIDE DEF len
      <4>3. k \in 1..len \/ k = len + 1
        BY <4>1
      <4>4. l \in 1..len \/ l = len + 1
        BY <4>1
      <4> QED
        BY <2>4, <4>1, <4>2, <4>3, <4>4
    <3> QED
      BY <3>1, <3>2
  <2>5. \A u, v \in inflight' : u.line = v.line => u = v
    BY <1>0, <2>1 DEF Once
  <2> QED
    BY <2>1, <2>3, <2>4, <2>5 DEF Once
<1>4. CASE FollowCreate
  <2>1. inflight' = inflight /\ \A v \in inflight : v.line \in Nat
    BY <1>0, <1>4 DEF FollowCreate, Shape, Lines
  <2>2. \A v \in inflight : \A i \in Inodes' : ~Landed(v.line, i)'
    BY <1>0, <1>4, <2>1, CreateAt DEF Once
  <2>3. \A i \in Inodes' : \A k, l \in 1..Len(content'[i]) :
            content'[i][k] = content'[i][l] => k = l
    <3>1. \A i \in Inodes' : content'[i] = <<>> \/ (i \in Inodes /\ content'[i] = content[i])
      <4>1. 0 \in Nat
        OBVIOUS
      <4> QED
        BY <1>0, <1>4, <4>1, CreateAt
    <3> QED
      BY <1>0, <3>1, Len(<<>>) = 0 DEF Once
  <2> QED
    BY <1>0, <2>1, <2>2, <2>3 DEF Once
<1> QED
  BY <1>1, <1>2, <1>3, <1>4, DiskSteps

\* The aged files stay the oldest, and the rotated names have no gap.
LEMMA DatedStep == OutputInv /\ [Next]_vars => Dated'
<1> SUFFICES ASSUME OutputInv, [Next]_vars PROVE Dated'
  OBVIOUS
<1>0. /\ Shape /\ Ranked /\ Dated /\ Len(content) \in Nat /\ MaxFiles \in Nat /\ 0 \in Names
      /\ 1..MaxFiles \subseteq Names /\ NONE \notin Nat
      /\ \A w \in inflight : w.inode \in Inodes
  BY OutputAssumption, LenProperties DEF OutputInv, Shape, Names
<1>1. CASE Spawn
  <2>1. ASSUME NEW i \in 1..MaxFiles, NEW j \in 1..MaxFiles, i < j, files'[j] # NONE
        PROVE  files'[i] # NONE
    <3>k. PICK k : k = IF Full THEN i - 1 ELSE i
      OBVIOUS
    <3>l. PICK l : l = IF Full THEN j - 1 ELSE j
      OBVIOUS
    <3>0. k \in Names /\ l \in 1..MaxFiles /\ l \in Names /\ k < l /\ (k \in 1..MaxFiles \/ (Full /\ k = 0))
      BY <1>0, <2>1, <3>k, <3>l DEF Names
    <3>1. files'[i] = IF files[k] \in aged THEN NONE ELSE files[k]
      BY <1>0, <1>1, <3>k, SpawnMoves
    <3>2. files[l] # NONE /\ files[l] \notin aged
      BY <1>0, <1>1, <2>1, <3>l, SpawnMoves
    <3>3. files[k] # NONE
      <4>1. CASE k = 0
        BY <2>1, <3>0, <4>1 DEF Full
      <4>2. CASE k \in 1..MaxFiles
        BY <1>0, <3>0, <3>2, <4>2 DEF Dated
      <4> QED
        BY <3>0, <4>1, <4>2
    <3>4. files[k] > files[l] /\ files[k] \in Inodes /\ files[l] \in Inodes
      BY <1>0, <3>0, <3>2, <3>3 DEF Ranked, Shape
    <3>5. files[k] \notin aged
      BY <1>0, <3>2, <3>4 DEF Dated, Inodes
    <3> QED
      BY <3>1, <3>3, <3>5
  <2> QED
    BY <1>0, <1>1, <2>1 DEF Dated, Spawn
<1>2. ASSUME Made
      PROVE  \A i, j \in 1..MaxFiles : i < j /\ files'[j] # NONE => files'[i] # NONE
  <2>1. \A i \in 1..MaxFiles : i \in Names \ {0}
    BY <1>0 DEF Names
  <2>2. \A i \in 1..MaxFiles : files'[i] = files[i]
    BY <1>0, <1>2, <2>1, MadeOpens
  <2> QED
    BY <1>0, <2>2 DEF Dated
<1>3. ASSUME NEW c \in 1..spawned, Forward(c) PROVE Dated'
  <2>1. Made /\ aged' = aged
    BY <1>3 DEF Forward
  <2>o. PICK o : o = Opened
    OBVIOUS
  <2>2. \A i, j \in 1..MaxFiles : i < j /\ files'[j] # NONE => files'[i] # NONE
    BY <1>2, <2>1
  <2>3. \A i \in aged : i <= o
    BY <1>0, <2>1, <2>o, MadeOpens DEF Shape, Inodes
  <2>4. \A w \in inflight' : w \in inflight \/ w.inode = o
    BY <1>3, <2>o DEF Forward
  <2> QED
    BY <1>0, <2>1, <2>2, <2>3, <2>4 DEF Dated
<1>4. ASSUME NEW w \in inflight, Land(w) PROVE Dated'
  <2>1. aged' = aged \ {w.inode} /\ inflight' = inflight \ {w} /\ UNCHANGED files
    BY <1>4 DEF Land
  <2>2. ASSUME NEW i \in aged', NEW j \in 1..i PROVE j \in aged'
    <3>1. i \in aged /\ i <= w.inode /\ i # w.inode /\ i \in Nat /\ w.inode \in Nat
      BY <1>0, <2>1 DEF Dated, Shape, Inodes
    <3> QED
      BY <1>0, <2>1, <3>1 DEF Dated
  <2> QED
    BY <1>0, <2>1, <2>2 DEF Dated
<1>5. ASSUME NEW i \in Inodes, Age(i) PROVE Dated'
  <2>1. aged' = aged \cup (1..i) /\ inflight' = {} /\ UNCHANGED files
    BY <1>5 DEF Age
  <2>2. \A k \in 1..i : \A j \in 1..k : j \in 1..i
    BY DEF Inodes
  <2> QED
    BY <1>0, <2>1, <2>2 DEF Dated
<1>6. CASE FollowCreate
  <2>1. CASE files[0] = NONE
    <3>1. Made /\ aged' = aged /\ inflight' = inflight
      BY <1>6, <2>1 DEF FollowCreate
    <3> QED
      BY <1>0, <1>2, <3>1 DEF Dated
  <2>2. CASE files[0] # NONE
    <3>1. aged' = aged \ {Len(content)} /\ inflight' = inflight /\ UNCHANGED files
      BY <1>0, <1>6, <2>2 DEF FollowCreate, Ranked
    <3>2. ASSUME NEW i \in aged', NEW j \in 1..i PROVE j \in aged'
      <4>1. i \in aged /\ i < Len(content) /\ i \in Nat
        BY <1>0, <3>1 DEF Shape, Inodes
      <4> QED
        BY <1>0, <3>1, <4>1 DEF Dated
    <3> QED
      BY <1>0, <3>1, <3>2 DEF Dated
  <2> QED
    BY <2>1, <2>2
<1>7. CASE Quiet
  BY <1>0, <1>7 DEF Quiet, Dated
<1> QED
  BY <1>1, <1>3, <1>4, <1>5, <1>6, <1>7, DiskSteps

-----------------------------------------------------------------------------
(* The steps lose no line, and show none twice.                            *)

\* No step but File::create loses a line.
LEMMA SavedStep == OutputInv /\ [Next]_vars => Saved'
<1> SUFFICES ASSUME OutputInv, [Next]_vars PROVE Saved'
  OBVIOUS
<1>a. Shape /\ Ranked /\ Placed /\ Saved /\ Lines = 1..Len(said)
  BY DEF OutputInv, Lines
<1>b. Len(said) \in Nat /\ follower \in Follower
  BY <1>a, LenProperties DEF Shape
<1>c. 0 \in Names /\ files[0] \in Inodes \cup {NONE}
  BY <1>a, OutputAssumption DEF Shape, Names
<1>0. /\ Shape /\ Ranked /\ Placed /\ Saved /\ Len(said) \in Nat /\ Lines = 1..Len(said)
      /\ follower \in Follower /\ follower.since \in Nat /\ follower.until \in Nat
      /\ 0 \in Names /\ files[0] \in Inodes \cup {NONE}
  BY <1>a, <1>b, <1>c DEF Follower
<1>1. ASSUME UNCHANGED <<content, inflight, said, follower>>, files'[0] \in {NONE, files[0]}
      PROVE  Saved'
  <2>1. \A i : \A n \in Nat : At(n, i)' <=> At(n, i)
    BY <1>1 DEF At, Landed, Heading
  <2>2. Inodes' = Inodes /\ Lines' = Lines
    BY <1>1 DEF Inodes, Lines
  <2>3. \A n \in Lines : (\E i \in Inodes : At(n, i)') \/ (n > follower.since /\ n <= follower.until)
    BY <1>0, <2>1 DEF Saved
  <2>4. ASSUME follower.pc = "missing", files'[0] # NONE
        PROVE  \A n \in Nat : At(n, files[0])' => n > follower.since
    <3>1. files[0]' = files[0]
      BY <1>1, <2>4
    <3> QED
      BY <1>0, <2>1, <2>4, <3>1 DEF Saved
  <2> QED
    BY <1>0, <1>1, <2>2, <2>3, <2>4 DEF Saved
<1>2. ASSUME UNCHANGED <<disk, said, inflight>>,
             follower'.since = follower.since, follower'.until = follower.until,
             follower'.pc = follower.pc \/ follower'.pc \in {"on", "made"}
      PROVE  Saved'
  <2>1. \A i : \A n \in Nat : At(n, i)' <=> At(n, i)
    BY <1>2 DEF At, Landed, Heading, disk
  <2> QED
    BY <1>0, <1>2, <2>1 DEF Saved, Inodes, Lines, disk
<1>3. CASE Spawn
  <2>1. files'[0] \in {NONE, files[0]}
    BY <1>0, <1>3, SpawnMoves
  <2> QED
    BY <1>1, <1>3, <2>1 DEF Spawn, watchers
<1>4. ASSUME NEW c \in 1..spawned, Forward(c) PROVE Saved'
  <2>o. PICK o, new : o = Opened /\ new = Len(said) + 1
    OBVIOUS
  <2>1. /\ o \in Inodes' /\ Inodes' = Inodes \cup {o} /\ files'[0] = o /\ UNCHANGED follower
        /\ Inodes \subseteq Inodes'
    BY <1>0, <1>4, <2>o, MadeOpens DEF Forward, watchers
  <2>2. Lines' = Lines \cup {new} /\ new \in Nat /\ Len(said') = new
    BY <1>0, <1>4, <2>o, AppendProperties DEF Forward, Lines, Shape
  <2>3. \A n \in Nat, i \in Inodes : At(n, i)' <=> At(n, i) \/ (n = new /\ i = o)
    BY <1>0, <1>4, <2>o, ForwardAt
  <2>4. o \notin Inodes => \A n \in Nat : At(n, o)' <=> n = new
    BY <1>0, <1>4, <2>o, ForwardAt
  <2>5. \A n \in Lines' :
          (\E i \in Inodes' : At(n, i)') \/ (n > follower.since /\ n <= follower.until)
    <3>1. At(new, o)'
      BY <2>2, <2>3, <2>4
    <3>2. ASSUME NEW n \in Lines, NEW i \in Inodes, At(n, i) PROVE At(n, i)'
      BY <1>0, <2>3, <3>2
    <3> QED
      BY <1>0, <2>1, <2>2, <3>1, <3>2 DEF Saved
  <2>6. ASSUME follower.pc = "missing", NEW n \in Nat, At(n, o)'
        PROVE  n > follower.since
    <3>1. CASE n = new
      BY <1>0, <2>o, <3>1 DEF Saved
    <3>2. CASE n # new
      <4>1. o \in Inodes /\ At(n, o) /\ files[0] = o /\ files[0] # NONE
        <5>1. o \in Inodes /\ At(n, o)
          BY <2>3, <2>4, <2>6, <3>2
        <5>2. files[0] # NONE
          BY <1>0, <2>o, <5>1 DEF Opened, Inodes, Shape
        <5> QED
          BY <2>o, <5>1, <5>2 DEF Opened
      <4> QED
        BY <1>0, <2>6, <4>1 DEF Saved
    <3> QED
      BY <3>1, <3>2
  <2>7. follower'.since <= Len(said')
    BY <1>0, <2>o, <2>1, <2>2 DEF Saved
  <2>8. \A n \in Nat : At(n, files[0])' => At(n, o)'
    BY <2>1
  <2> QED
    BY <1>0, <2>1, <2>5, <2>6, <2>7, <2>8 DEF Saved
<1>5. ASSUME NEW w \in inflight, Land(w) PROVE Saved'
  <2>1. Inodes' = Inodes /\ Lines' = Lines /\ UNCHANGED <<files, said, follower>>
    BY <1>0, <1>5, LandMoves DEF Land, Lines, watchers
  <2>2. \A n \in Nat, i \in Inodes : At(n, i)' <=> At(n, i)
    BY <1>0, <1>5, LandAt
  <2>3. ASSUME files[0] # NONE, NEW n \in Nat, At(n, files[0])' PROVE At(n, files[0])
    <3>1. PICK i \in Inodes : i = files[0]
      BY <1>0, <2>3
    <3>2. At(n, i)'
      BY <2>1, <2>3, <3>1
    <3> QED
      BY <2>2, <3>1, <3>2
  <2> QED
    BY <1>0, <2>1, <2>2, <2>3 DEF Saved
<1>6. ASSUME NEW i \in Inodes, Age(i) PROVE Saved'
  BY <1>1, <1>6 DEF Age, watchers
<1>7. CASE FollowCreate
  <2>1. /\ follower'.pc = "made" /\ follower'.since = follower.since
        /\ follower'.until = Len(said) /\ follower.pc = "missing" /\ UNCHANGED said
    BY <1>0, <1>7 DEF FollowCreate, Follower
  <2>2. ASSUME NEW n \in Lines
        PROVE  (\E i \in Inodes' : At(n, i)') \/ (n > follower.since /\ n <= Len(said))
    <3>1. n \in Nat /\ n <= Len(said)
      BY <1>0
    <3>2. follower.until = 0
      BY <1>0, <2>1 DEF Saved
    <3>3. PICK i \in Inodes : At(n, i)
      BY <1>0, <3>1, <3>2 DEF Saved
    <3>4. i \in Inodes' /\ (At(n, i)' \/ i = files[0])
      BY <1>0, <1>7, <3>1, <3>3, CreateAt
    <3>5. CASE i = files[0]
      <4>1. i # NONE
        BY OutputAssumption DEF Inodes
      <4> QED
        BY <1>0, <2>1, <3>1, <3>3, <3>5, <4>1 DEF Saved
    <3> QED
      BY <3>4, <3>5
  <2>3. Lines' = Lines
    BY <2>1 DEF Lines
  <2> QED
    BY <1>0, <2>1, <2>2, <2>3 DEF Saved
<1>8. CASE FollowMissing
  <2>1. /\ follower'.pc = "missing" /\ follower'.since = Len(said) /\ follower'.until = 0
        /\ follower.until = 0 /\ files[0] = NONE /\ UNCHANGED <<disk, said, inflight>>
    BY <1>0, <1>8 DEF FollowMissing, Follower, Saved
  <2>2. \A i : \A n \in Nat : At(n, i)' <=> At(n, i)
    BY <2>1 DEF At, Landed, Heading, disk
  <2>3. ASSUME NEW n \in Lines PROVE \E i \in Inodes : At(n, i)
    BY <1>0, <2>1 DEF Saved
  <2> QED
    BY <1>0, <2>1, <2>2, <2>3 DEF Saved, Inodes, Lines, disk
<1>9. CASE Follow \/ Read \/ Reopen
  BY <1>0, <1>2, <1>9 DEF Follow, Read, Reopen, Reading, Follower
<1>10. CASE Adopt \/ Crash \/ Subscribe \/ FilterRead \/ Deliver \/ Lagged \/ UNCHANGED vars
  BY <1>0, <1>2, <1>10
  DEF Adopt, Crash, Subscribe, FilterRead, Deliver, Lagged, vars, disk, watchers
<1> QED
  BY <1>3, <1>4, <1>5, <1>6, <1>7, <1>8, <1>9, <1>10 DEF Next

\* Files that only grow keep what was shown.
LEMMA FollowingKept ==
    ASSUME Shape, Following, UNCHANGED follower,
           Inodes \subseteq Inodes',
           \A i \in Inodes : /\ Len(content'[i]) \in Nat /\ Len(content[i]) <= Len(content'[i])
                             /\ \A k \in 1..Len(content[i]) : content'[i][k] = content[i][k]
    PROVE  Following'
<1>0. follower.inode \in Nat \cup {NONE} /\ follower.pos \in Nat /\ Len(follower.shown) \in Nat
  BY LenProperties DEF Shape, Follower
<1>1. ASSUME follower.pc = "on", NEW n \in Nat, Shown(n) PROVE Shown(n)'
  <2>0. PICK i \in 1..follower.inode :
          \E k \in 1..Len(content[i]) : content[i][k] = n /\ (i = follower.inode => k <= follower.pos)
    BY <1>1 DEF Shown
  <2>1. PICK k \in 1..Len(content[i]) :
          content[i][k] = n /\ (i = follower.inode => k <= follower.pos)
    BY <2>0
  <2>2. i \in Inodes
    BY <1>1, <2>1 DEF Following, Inodes
  <2>3. Len(content[i]) \in Nat
    BY <2>2, LenProperties, ElementOfSeq DEF Shape, Inodes
  <2>4. k \in 1..Len(content'[i]) /\ content'[i][k] = n
    BY <2>1, <2>2, <2>3
  <2> QED
    BY <2>1, <2>4 DEF Shown
<1>2. ASSUME follower.pc = "on"
      PROVE  follower.inode \in Inodes' /\ follower.pos <= Len(content'[follower.inode])
  <2>1. follower.inode \in Inodes /\ follower.pos <= Len(content[follower.inode])
    BY <1>2 DEF Following
  <2>2. Len(content[follower.inode]) \in Nat
    BY <2>1, LenProperties, ElementOfSeq DEF Shape, Inodes
  <2> QED
    BY <1>0, <2>1, <2>2
<1>3. \A k \in 1..Len(follower.shown) : follower.shown[k] \in Nat
  BY ElementOfSeq DEF Shape, Follower
<1> QED
  BY <1>1, <1>2, <1>3 DEF Following

\* What is shown after a read: what was shown, and the lines from the place on.
LEMMA ReadOn ==
    ASSUME NEW old \in Seq(Nat), NEW ls \in Seq(Nat), NEW p \in Nat, p < Len(ls)
    PROVE  \E seq :
              /\ seq = old \o SubSeq(ls, p + 1, Len(ls)) /\ Len(seq) \in Nat
              /\ \A k \in 1..Len(seq) :
                    \/ k \in 1..Len(old) /\ seq[k] = old[k]
                    \/ /\ k \notin 1..Len(old)
                       /\ k - Len(old) + p \in (p + 1)..Len(ls) /\ seq[k] = ls[k - Len(old) + p]
<1>s. PICK seq : seq = old \o SubSeq(ls, p + 1, Len(ls))
  OBVIOUS
<1>1. Len(ls) \in Nat /\ Len(old) \in Nat
  BY LenProperties
<1>2. ASSUME NEW k \in (p + 1)..Len(ls) PROVE ls[k] \in Nat
  <2>1. k \in 1..Len(ls)
    BY <1>1
  <2> QED
    BY <2>1, ElementOfSeq
<1>3. p + 1 \in Int /\ Len(ls) \in Int /\ p + 1 <= Len(ls)
  BY <1>1
<1>4. PICK more : more = SubSeq(ls, p + 1, Len(ls))
  OBVIOUS
<1>5. /\ more \in Seq(Nat) /\ Len(more) = Len(ls) - (p + 1) + 1
      /\ \A k \in 1..(Len(ls) - (p + 1) + 1) : more[k] = ls[(p + 1) + k - 1]
  BY <1>2, <1>3, <1>4, SubSeqProperties
<1>6. /\ Len(more) = Len(ls) - p
      /\ \A k \in 1..Len(more) : more[k] = ls[p + k]
  <2>1. Len(ls) - (p + 1) + 1 = Len(ls) - p
    BY <1>1
  <2>2. \A k \in 1..Len(more) : (p + 1) + k - 1 = p + k
    BY <1>1
  <2> QED
    BY <1>5, <2>1, <2>2
<1>7. /\ Len(seq) = Len(old) + Len(more)
      /\ \A k \in 1..(Len(old) + Len(more)) :
            seq[k] = IF k <= Len(old) THEN old[k] ELSE more[k - Len(old)]
  BY <1>4, <1>5, <1>s, ConcatProperties
<1>8. Len(more) \in Nat /\ Len(seq) \in Nat
  BY <1>1, <1>6, <1>7
<1>9. ASSUME NEW k \in 1..Len(seq), k <= Len(old)
      PROVE  k \in 1..Len(old) /\ seq[k] = old[k]
  BY <1>1, <1>7, <1>8, <1>9
<1>10. ASSUME NEW k \in 1..Len(seq), ~(k <= Len(old))
       PROVE  /\ k \notin 1..Len(old)
              /\ k - Len(old) + p \in (p + 1)..Len(ls) /\ seq[k] = ls[k - Len(old) + p]
  <2>1. /\ k - Len(old) \in 1..Len(more) /\ p + (k - Len(old)) = k - Len(old) + p
        /\ k - Len(old) + p \in (p + 1)..Len(ls) /\ k \notin 1..Len(old)
    BY <1>1, <1>6, <1>7, <1>8, <1>10
  <2>2. seq[k] = more[k - Len(old)]
    BY <1>1, <1>7, <1>8, <1>10
  <2>3. more[k - Len(old)] = ls[p + (k - Len(old))]
    BY <1>6, <2>1
  <2> QED
    BY <2>1, <2>2, <2>3
<1> QED
  BY <1>s, <1>8, <1>9, <1>10

\* What is read comes after what was shown, and is not in an older file.
LEMMA FollowingRead == ASSUME OutputInv, Read PROVE Following'
<1>o. PICK o : o = follower.inode
  OBVIOUS
<1>p. PICK p : p = follower.pos
  OBVIOUS
<1>l. PICK ls : ls = content[follower.inode]
  OBVIOUS
<1>s. PICK old : old = follower.shown
  OBVIOUS
<1>1. /\ Shape /\ Placed /\ Once /\ Following /\ follower \in Follower /\ follower.pc = "on"
      /\ p < Len(ls)
  BY <1>p, <1>l DEF Read, OutputInv, Shape
<1>2. /\ o \in Inodes /\ o \in Nat \ {0} /\ ls \in Seq(Nat) /\ Len(ls) \in Nat
      /\ p \in Nat /\ old \in Seq(Nat) /\ Len(old) \in Nat
  <2>1. o \in Inodes /\ o \in Nat \ {0}
    BY <1>1, <1>o DEF Following, Inodes
  <2> QED
    BY <1>1, <1>o, <1>p, <1>l, <1>s, <2>1, LenProperties, ElementOfSeq DEF Shape, Follower, Inodes
<1>n. PICK new :
        /\ new = old \o SubSeq(ls, p + 1, Len(ls)) /\ Len(new) \in Nat
        /\ \A k \in 1..Len(new) :
              \/ k \in 1..Len(old) /\ new[k] = old[k]
              \/ /\ k \notin 1..Len(old)
                 /\ k - Len(old) + p \in (p + 1)..Len(ls) /\ new[k] = ls[k - Len(old) + p]
  <2>1. old \in Seq(Nat) /\ ls \in Seq(Nat) /\ p \in Nat /\ p < Len(ls)
    BY <1>1, <1>2
  <2> QED
    BY <2>1, ReadOn
<1>3. /\ follower'.pc = "on" /\ follower'.inode = o /\ follower'.pos = Len(ls)
      /\ follower'.shown = new /\ content' = content
  <2>1. follower' = [follower EXCEPT !.pos = Len(ls), !.shown = new]
    BY <1>n, <1>o, <1>p, <1>l, <1>s DEF Read
  <2>2. content' = content
    BY DEF Read, disk
  <2> QED
    BY <1>1, <1>o, <2>1, <2>2 DEF Follower
<1>5. \A n : Shown(n) <=> \E i \in 1..o : \E k \in 1..Len(content[i]) :
                            content[i][k] = n /\ (i = o => k <= p)
  BY <1>o, <1>p DEF Shown
<1>6. \A n : Shown(n)' <=> \E i \in 1..o : \E k \in 1..Len(content[i]) :
                             content[i][k] = n /\ (i = o => k <= Len(ls))
  BY <1>3 DEF Shown
<1>7. \A k \in 1..Len(old) : old[k] \in Nat /\ Shown(old[k])
  BY <1>1, <1>2, <1>s, ElementOfSeq DEF Following
<1>8. ASSUME NEW n, Shown(n) PROVE Shown(n)'
  <2>1. PICK i \in 1..o : \E k \in 1..Len(content[i]) : content[i][k] = n /\ (i = o => k <= p)
    BY <1>5, <1>8
  <2>2. PICK k \in 1..Len(content[i]) : content[i][k] = n
    BY <2>1
  <2>3. i = o => k <= Len(ls)
    BY <1>2, <1>o, <1>l, <2>2
  <2> QED
    BY <1>6, <2>1, <2>2, <2>3
<1>9. ASSUME NEW k \in (p + 1)..Len(ls)
      PROVE  k \in 1..Len(ls) /\ Shown(ls[k])' /\ ls[k] \in Nat /\ ~Shown(ls[k])
  <2>0. k \in 1..Len(ls) /\ ~(k <= p) /\ k <= Len(ls)
    BY <1>2
  <2>1. o \in 1..o /\ content[o] = ls
    BY <1>2, <1>o, <1>l
  <2>2. ls[k] \in Nat
    BY <1>2, <2>0, ElementOfSeq
  <2>3. Shown(ls[k])'
    BY <1>6, <2>0, <2>1
  <2>4. ASSUME Shown(ls[k]) PROVE FALSE
    <3>1. PICK i \in 1..o :
            \E q \in 1..Len(content[i]) : content[i][q] = ls[k] /\ (i = o => q <= p)
      BY <1>5, <2>4
    <3>2. PICK q \in 1..Len(content[i]) : content[i][q] = ls[k] /\ (i = o => q <= p)
      BY <3>1
    <3>3. i \in Inodes /\ i \in Nat
      BY <1>2 DEF Inodes
    <3>4. At(ls[k], i) /\ At(ls[k], o)
      BY <2>0, <2>1, <3>2 DEF At, Landed
    <3>5. ls[k] <= ls[k]
      BY <2>2
    <3>6. i <= o /\ o <= i
      BY <1>1, <1>2, <2>2, <3>3, <3>4, <3>5 DEF Placed
    <3>7. i = o
      BY <1>2, <3>3, <3>6
    <3>8. q \in 1..Len(ls) /\ ls[q] = ls[k] /\ q <= p
      BY <2>1, <3>2, <3>7
    <3>9. q = k
      BY <1>1, <1>2, <2>0, <2>1, <3>8 DEF Once
    <3> QED
      BY <2>0, <3>8, <3>9
  <2> QED
    BY <2>0, <2>2, <2>3, <2>4
<1>10. \A k \in 1..Len(new) : Shown(new[k])'
  BY <1>n, <1>7, <1>8, <1>9
<1>11. ASSUME NEW k \in 1..Len(new), NEW l \in 1..Len(new), new[k] = new[l] PROVE k = l
  <2>1. CASE k \in 1..Len(old) /\ l \in 1..Len(old)
    BY <1>1, <1>s, <1>n, <1>11, <2>1 DEF Following
  <2>2. CASE k \in 1..Len(old) /\ l \notin 1..Len(old)
    BY <1>n, <1>7, <1>9, <1>11, <2>2
  <2>3. CASE k \notin 1..Len(old) /\ l \in 1..Len(old)
    BY <1>n, <1>7, <1>9, <1>11, <2>3
  <2>4. CASE k \notin 1..Len(old) /\ l \notin 1..Len(old)
    <3>1. /\ k - Len(old) + p \in 1..Len(ls) /\ l - Len(old) + p \in 1..Len(ls)
          /\ ls[k - Len(old) + p] = ls[l - Len(old) + p]
      BY <1>n, <1>9, <1>11, <2>4
    <3>2. \A x, y \in 1..Len(ls) : ls[x] = ls[y] => x = y
      BY <1>1, <1>2, <1>o, <1>l DEF Once
    <3>3. k - Len(old) + p = l - Len(old) + p
      BY <3>1, <3>2
    <3> QED
      BY <1>2, <1>n, <3>3
  <2> QED
    BY <2>1, <2>2, <2>3, <2>4
<1>12. o \in Inodes' /\ Len(ls) <= Len(content'[o])
  BY <1>2, <1>3, <1>o, <1>l DEF Inodes
<1> QED
  BY <1>3, <1>10, <1>11, <1>12 DEF Following

\* No step makes the follower show a line again.
LEMMA FollowingStep == OutputInv /\ [Next]_vars => Following'
<1> SUFFICES ASSUME OutputInv, [Next]_vars PROVE Following'
  OBVIOUS
<1>0. /\ Shape /\ Ranked /\ Following /\ follower \in Follower /\ 0 \in Names
      /\ Len(content) \in Nat
      /\ \A i \in Inodes : content[i] \in Seq(Nat) /\ Len(content[i]) \in Nat
  BY OutputAssumption, LenProperties, ElementOfSeq DEF OutputInv, Shape, Names, Inodes
<1>1. ASSUME UNCHANGED <<content, follower>> PROVE Following'
  BY <1>0, <1>1 DEF Following, Shown, Inodes
<1>2. ASSUME NEW c \in 1..spawned, Forward(c) PROVE Following'
  <2>1. Made /\ UNCHANGED follower
    BY <1>2 DEF Forward, watchers
  <2>2. Inodes \subseteq Inodes' /\ \A i \in Inodes : content'[i] = content[i]
    BY <1>0, <2>1, MadeOpens
  <2> QED
    BY <1>0, <2>1, <2>2, FollowingKept
<1>3. ASSUME NEW w \in inflight, Land(w) PROVE Following'
  <2>1. UNCHANGED follower /\ Inodes' = Inodes
    BY <1>0, <1>3, LandMoves DEF Land, watchers
  <2>2. ASSUME NEW i \in Inodes
        PROVE  /\ Len(content'[i]) \in Nat /\ Len(content[i]) <= Len(content'[i])
               /\ \A k \in 1..Len(content[i]) : content'[i][k] = content[i][k]
    <3>1. CASE i # w.inode
      BY <1>0, <1>3, <3>1, LandMoves
    <3>2. CASE i = w.inode
      <4>1. /\ Len(content'[i]) = Len(content[i]) + 1 /\ Len(content[i]) \in Nat
            /\ \A k \in 1..Len(content[i]) : content'[i][k] = content[i][k]
        BY <1>0, <1>3, <3>2, LandMoves
      <4> QED
        BY <4>1
    <3> QED
      BY <3>1, <3>2
  <2> QED
    BY <1>0, <2>1, <2>2, FollowingKept
<1>4. CASE Follow
  <2>1. /\ files[0] \in Inodes /\ UNCHANGED content
        /\ follower' = [follower EXCEPT !.pc = "on", !.inode = files[0],
                                        !.pos = Len(content[files[0]])]
    BY <1>0, <1>4 DEF Follow, Reading, Shape, disk
  <2>2. follower.shown = <<>>
    BY <1>0, <1>4 DEF Follow, Following
  <2> QED
    BY <1>0, <2>1, <2>2, Len(<<>>) = 0 DEF Following, Follower, Inodes
<1>5. CASE FollowMissing \/ FollowCreate
  <2>1. follower.pc # "on" /\ follower'.pc # "on" /\ follower'.shown = follower.shown
    BY <1>0, <1>5 DEF FollowMissing, FollowCreate, Follower
  <2> QED
    BY <1>0, <2>1 DEF Following
<1>6. CASE Reopen
  <2>1. /\ files[0] \in Inodes /\ UNCHANGED content /\ follower.pc = "on"
        /\ follower' = [follower EXCEPT !.pc = "on", !.inode = files[0], !.pos = 0]
        /\ Len(content[files[0]]) < follower.pos /\ files[0] = Len(content)
    BY <1>0, <1>6 DEF Reopen, Reading, Shorter, Shape, Ranked, disk
  <2>2. /\ follower'.pc = "on" /\ follower'.inode = files[0] /\ follower'.pos = 0
        /\ follower'.shown = follower.shown
    BY <1>0, <2>1 DEF Follower
  <2>3. follower.inode \in Inodes /\ follower.inode # files[0] /\ follower.pos \in Nat
    BY <1>0, <2>1 DEF Following, Follower
  <2>4. ASSUME NEW n, Shown(n) PROVE Shown(n)'
    <3>1. PICK i \in 1..follower.inode : \E k \in 1..Len(content[i]) : content[i][k] = n
      BY <2>4 DEF Shown
    <3>2. i \in 1..files[0] /\ i # files[0]
      BY <1>0, <2>1, <2>3, <3>1 DEF Inodes
    <3> QED
      BY <2>1, <2>2, <3>1, <3>2 DEF Shown
  <2>5. files[0] \in Inodes' /\ 0 <= Len(content[files[0]])
    BY <1>0, <2>1 DEF Inodes
  <2> QED
    BY <1>0, <2>1, <2>2, <2>4, <2>5 DEF Following
<1>7. CASE Read
  BY <1>7, FollowingRead
<1>8. CASE \/ Spawn \/ Adopt \/ Crash \/ (\E i \in Inodes : Age(i))
           \/ Subscribe \/ FilterRead \/ Deliver \/ Lagged \/ UNCHANGED vars
  BY <1>1, <1>8
  DEF Spawn, Adopt, Crash, Age, Subscribe, FilterRead, Deliver, Lagged, vars, disk, watchers
<1> QED
  BY <1>2, <1>3, <1>4, <1>5, <1>6, <1>7, <1>8 DEF Next

-----------------------------------------------------------------------------
(* The steps keep the count of a subscriber, and the buffer behind a report. *)

\* What was got and missed still adds up to what was passed.
LEMMA SubscribedStep == OutputInv /\ [Next]_vars => Subscribed'
<1> SUFFICES ASSUME OutputInv, [Next]_vars PROVE Subscribed'
  OBVIOUS
<1>0. /\ Subscribed /\ sub \in Sub /\ Len(said) \in Nat /\ BusCapacity \in Nat
      /\ Oldest \in Nat
  BY OutputAssumption, LenProperties DEF OutputInv, Shape, Oldest
<1>1. ASSUME UNCHANGED sub PROVE Subscribed'
  BY <1>0, <1>1 DEF Subscribed
<1>2. CASE Subscribe
  <2>1. /\ sub'.pc = "filter" /\ sub'.from = Len(said) + 1 /\ sub'.next = Len(said) + 1
        /\ sub'.got = sub.got /\ sub'.missed = sub.missed
    BY <1>0, <1>2 DEF Subscribe, Connected, Sub
  <2>2. sub.got = {} /\ sub.missed = 0
    BY <1>0, <1>2 DEF Subscribe, Subscribed
  <2> QED
    BY <1>0, <2>1, <2>2, FS_EmptySet DEF Subscribed
<1>3. CASE FilterRead
  <2>1. sub.pc = "filter" /\ sub.from \in Nat /\ sub.next \in Nat
    BY <1>0, <1>3 DEF FilterRead, Sub
  <2>2. sub.next # 0
    BY <1>0, <2>1 DEF Subscribed
  <2>3. /\ sub'.pc = "on" /\ sub'.from = sub.from /\ sub'.next = sub.next
        /\ sub'.got = sub.got /\ sub'.missed = sub.missed
    BY <1>0, <1>3, <2>2 DEF FilterRead, Sub
  <2> QED
    BY <1>0, <2>1, <2>3 DEF Subscribed
<1>4. CASE Deliver
  <2>1. /\ sub.pc = "on" /\ sub.from \in Nat /\ sub.next \in Nat /\ sub.missed \in Nat
        /\ sub.got \in SUBSET Nat
    BY <1>0, <1>4 DEF Deliver, Sub
  <2>2. sub' = [sub EXCEPT !.got = sub.got \cup {sub.next}, !.next = sub.next + 1]
    BY <1>4 DEF Deliver
  <2>3. /\ sub'.pc = "on" /\ sub'.from = sub.from /\ sub'.next = sub.next + 1
        /\ sub'.got = sub.got \cup {sub.next} /\ sub'.missed = sub.missed
    BY <1>0, <2>1, <2>2 DEF Sub
  <2>4. sub.next \notin sub.got
    BY <1>0, <2>1 DEF Subscribed
  <2>5. /\ IsFiniteSet(sub'.got) /\ Cardinality(sub'.got) = Cardinality(sub.got) + 1
        /\ Cardinality(sub.got) \in Nat
    BY <1>0, <2>3, <2>4, FS_AddElement, FS_CardinalityType DEF Subscribed
  <2>6. \A n \in sub'.got : n < sub'.next
    BY <1>0, <2>1, <2>3 DEF Subscribed
  <2>7. sub.from > 0 /\ sub.from <= sub.next /\ Cardinality(sub.got) + sub.missed = sub.next - sub.from
    BY <1>0, <2>1 DEF Subscribed
  <2> QED
    BY <2>1, <2>3, <2>5, <2>6, <2>7 DEF Subscribed
<1>5. CASE Lagged
  <2>1. /\ sub.pc = "on" /\ sub.from \in Nat /\ sub.next \in Nat /\ sub.missed \in Nat
        /\ sub.got \in SUBSET Nat /\ sub.next < Oldest
    BY <1>0, <1>5 DEF Lagged, Sub
  <2>2. /\ sub'.pc = "on" /\ sub'.from = sub.from /\ sub'.next = Oldest
        /\ sub'.got = sub.got /\ sub'.missed = sub.missed + (Oldest - sub.next)
    BY <1>0, <1>5 DEF Lagged, Sub
  <2>3. /\ sub.from > 0 /\ sub.from <= sub.next
        /\ Cardinality(sub.got) + sub.missed = sub.next - sub.from
        /\ IsFiniteSet(sub.got) /\ Cardinality(sub.got) \in Nat
    BY <1>0, <2>1, FS_CardinalityType DEF Subscribed
  <2>4. \A n \in sub.got : n < Oldest
    BY <1>0, <2>1 DEF Subscribed
  <2> QED
    BY <1>0, <2>1, <2>2, <2>3, <2>4 DEF Subscribed
<1>6. CASE \/ Spawn \/ Adopt \/ Crash
           \/ (\E c \in (1..spawned) \cap {spawned, spawned - 1} : Forward(c))
           \/ (\E w \in inflight : Land(w)) \/ (\E i \in Inodes : Age(i))
           \/ Follow \/ FollowMissing \/ FollowCreate \/ Read \/ Reopen \/ UNCHANGED vars
  BY <1>1, <1>6
  DEF Spawn, Adopt, Crash, Forward, Land, Age, Follow, FollowMissing, FollowCreate, Read, Reopen,
      vars, watchers
<1> QED
  BY <1>2, <1>3, <1>4, <1>5, <1>6 DEF Next

\* A line of the child spawned last extends the tail in its buffer.
LEMMA LatestPushed ==
    ASSUME Shape, Latest(said, buffer, spawned, Len(said)),
           NEW n, n = Len(said) + 1, NEW new, new = Pushed(n),
           NEW lines, lines[n] = spawned, \A k \in 1..Len(said) : lines[k] = said[k]
    PROVE  Latest(lines, new, spawned, n)
<1>b. PICK b : b = Len(buffer)
  OBVIOUS
<1>0. /\ Len(said) \in Nat /\ n \in Nat /\ buffer \in Seq(Nat) /\ b \in Nat
      /\ TailCapacity \in Nat \ {0}
  BY <1>b, OutputAssumption, LenProperties DEF Shape
<1>2. /\ \A k \in 1..b : buffer[k] \in Nat /\ buffer[k] \in 1..Len(said) /\ buffer[k] < n
                         /\ said[buffer[k]] = spawned
      /\ \A k, l \in 1..b : k < l => buffer[k] < buffer[l]
      /\ b <= TailCapacity
      /\ \A m \in 1..Len(said) : said[m] = spawned =>
            \/ \E k \in 1..b : buffer[k] = m
            \/ b = TailCapacity /\ \A k \in 1..b : m < buffer[k]
  <2>1. \A k \in 1..b : buffer[k] \in 1..Len(said) /\ said[buffer[k]] = spawned
    BY <1>b DEF Latest
  <2>2. \A k \in 1..b : buffer[k] \in Nat /\ buffer[k] < n
    BY <1>0, <2>1
  <2> QED
    BY <1>b, <2>1, <2>2 DEF Latest
<1>4. CASE b < TailCapacity
  <2>1. /\ Len(new) = b + 1 /\ new[b + 1] = n
        /\ \A k \in 1..b : new[k] = buffer[k]
    BY <1>0, <1>b, <1>4, PushedShape
  <2>2. 1..Len(new) = (1..b) \cup {b + 1}
    BY <1>0, <2>1
  <2>3. ASSUME NEW k \in 1..Len(new) PROVE new[k] \in 1..n /\ lines[new[k]] = spawned
    <3>1. CASE k = b + 1
      BY <1>0, <2>1, <3>1
    <3>2. CASE k \in 1..b
      <4>1. new[k] = buffer[k] /\ new[k] \in 1..Len(said) /\ said[new[k]] = spawned
        BY <1>2, <2>1, <3>2
      <4> QED
        BY <1>0, <4>1
    <3> QED
      BY <2>2, <3>1, <3>2
  <2>4. ASSUME NEW k \in 1..Len(new), NEW l \in 1..Len(new), k < l PROVE new[k] < new[l]
    <3>1. k \in 1..b /\ (l \in 1..b \/ l = b + 1)
      BY <1>0, <2>1, <2>4
    <3>2. CASE l \in 1..b
      BY <1>2, <2>1, <2>4, <3>1, <3>2
    <3>3. CASE l = b + 1
      BY <1>2, <2>1, <3>1, <3>3
    <3> QED
      BY <3>1, <3>2, <3>3
  <2>5. ASSUME NEW m \in 1..n, lines[m] = spawned PROVE \E k \in 1..Len(new) : new[k] = m
    <3>1. CASE m = n
      BY <2>1, <2>2, <3>1
    <3>2. CASE m # n
      <4>1. m \in 1..Len(said) /\ said[m] = spawned
        BY <1>0, <2>5, <3>2
      <4>2. PICK k \in 1..b : buffer[k] = m
        BY <1>0, <1>2, <1>4, <4>1
      <4> QED
        BY <2>1, <2>2, <4>2
    <3> QED
      BY <3>1, <3>2
  <2> QED
    BY <1>0, <1>4, <2>1, <2>3, <2>4, <2>5 DEF Latest
<1>5. CASE b >= TailCapacity
  <2>1. /\ Len(new) = b /\ new[b] = n /\ b = TailCapacity /\ b > 0
        /\ \A k \in 1..(b - 1) : new[k] = buffer[k + 1] /\ k + 1 \in 1..b
    <3>1. b = TailCapacity /\ b > 0
      BY <1>0, <1>2, <1>5
    <3>2. /\ Len(new) = b /\ new[b] = n
          /\ \A k \in 1..(b - 1) : new[k] = buffer[k + 1]
      BY <1>0, <1>b, <1>5, PushedShape
    <3>3. \A k \in 1..(b - 1) : k + 1 \in 1..b
      BY <1>0
    <3> QED
      BY <3>1, <3>2, <3>3
  <2>2. 1..b = (1..(b - 1)) \cup {b}
    BY <1>0, <2>1
  <2>3. ASSUME NEW k \in 1..b PROVE new[k] \in 1..n /\ lines[new[k]] = spawned
    <3>1. CASE k = b
      BY <1>0, <2>1, <3>1
    <3>2. CASE k \in 1..(b - 1)
      <4>1. new[k] = buffer[k + 1] /\ new[k] \in 1..Len(said) /\ said[new[k]] = spawned
        BY <1>2, <2>1, <3>2
      <4> QED
        BY <1>0, <4>1
    <3> QED
      BY <2>2, <3>1, <3>2
  <2>4. \A k, l \in 1..b : k < l => new[k] < new[l]
    BY <1>0, <1>2, <2>1, <2>2
  <2>5. ASSUME NEW m \in 1..n, lines[m] = spawned
        PROVE  (\E k \in 1..b : new[k] = m) \/ \A k \in 1..b : m < new[k]
    <3>1. CASE m = n
      BY <2>1, <2>2, <3>1
    <3>2. CASE m # n
      <4>1. m \in 1..Len(said) /\ said[m] = spawned /\ m \in Nat /\ m < n
        BY <1>0, <2>5, <3>2
      <4>2. CASE \A k \in 1..b : m < buffer[k]
        BY <1>0, <2>1, <2>2, <4>1, <4>2
      <4>3. CASE \E k \in 1..b : buffer[k] = m
        <5>1. PICK k \in 1..b : buffer[k] = m
          BY <4>3
        <5>2. CASE k = 1
          <6>1. \A l \in 1..(b - 1) : buffer[k] < buffer[l + 1]
            BY <1>0, <1>2, <2>1, <5>2
          <6>2. \A l \in 1..(b - 1) : m < new[l]
            BY <2>1, <5>1, <6>1
          <6>3. m < new[b]
            BY <2>1, <4>1
          <6> QED
            BY <2>2, <6>2, <6>3
        <5>3. CASE k # 1
          <6>1. k - 1 \in 1..(b - 1) /\ (k - 1) + 1 = k
            BY <1>0, <5>3
          <6> QED
            BY <2>1, <2>2, <5>1, <6>1
        <5> QED
          BY <5>2, <5>3
      <4> QED
        BY <1>2, <4>1, <4>2, <4>3
    <3> QED
      BY <3>1, <3>2
  <2>6. \A m \in 1..n : lines[m] = spawned =>
          \/ \E k \in 1..Len(new) : new[k] = m
          \/ Len(new) = TailCapacity /\ \A k \in 1..Len(new) : m < new[k]
    BY <2>1, <2>5
  <2>7. \A k, l \in 1..Len(new) : k < l => new[k] < new[l]
    BY <2>1, <2>4
  <2>8. Len(new) <= TailCapacity
    BY <1>0, <2>1
  <2> QED
    BY <2>1, <2>3, <2>6, <2>7, <2>8 DEF Latest
<1> QED
  BY <1>0, <1>4, <1>5

\* The buffer keeps the last lines of the child spawned last until a report takes it.
LEMMA ReportedStep == OutputInv /\ [Next]_vars => Reported'
<1> SUFFICES ASSUME OutputInv, [Next]_vars PROVE Reported'
  OBVIOUS
<1>0. /\ Shape /\ Reported /\ Len(said) \in Nat /\ spawned \in Nat /\ Lines = 1..Len(said)
      /\ managed \in (1..spawned) \cup {NONE} /\ report \in Report
      /\ TailCapacity \in Nat \ {0} /\ NONE \notin Nat
  BY OutputAssumption, LenProperties DEF OutputInv, Shape, Lines
<1>1. ASSUME UNCHANGED <<said, spawned, buffer, managed, report>> PROVE Reported'
  BY <1>0, <1>1 DEF Reported, Lines
<1>2. Latest(said, <<>>, spawned + 1, Len(said))
  <2>1. \A n \in 1..Len(said) : said[n] # spawned + 1
    BY <1>0 DEF Reported
  <2>2. Len(<<>>) = 0 /\ 1..Len(<<>>) = {}
    OBVIOUS
  <2> QED
    BY <1>0, <2>1, <2>2 DEF Latest
<1>3. CASE Spawn
  <2>1. spawned' = spawned + 1 /\ buffer' = <<>> /\ UNCHANGED <<said, managed, report>>
    BY <1>3 DEF Spawn
  <2>2. report.child # spawned + 1 /\ (report.child = NONE \/ report.child \in 0..(spawned + 1))
    BY <1>0 DEF Reported
  <2>3. \A n \in Lines : said[n] \in 1..(spawned + 1)
    BY <1>0 DEF Reported
  <2> QED
    BY <1>0, <1>2, <2>1, <2>2, <2>3 DEF Reported, Lines
<1>4. CASE Adopt
  <2>1. report.child # spawned /\ UNCHANGED <<said, spawned, buffer, report>>
    BY <1>4 DEF Adopt, disk
  <2> QED
    BY <1>0, <2>1 DEF Reported, Lines
<1>5. CASE Crash
  <2>1. /\ managed # NONE /\ managed' = NONE /\ buffer' = <<>> /\ UNCHANGED <<said, spawned>>
        /\ report'.child = spawned /\ report'.tail = buffer /\ report'.at = Len(said)
    BY <1>5 DEF Crash, disk
  <2>2. Latest(said, buffer, spawned, Len(said))
    BY <1>0, <2>1 DEF Reported
  <2> QED
    BY <1>0, <2>1, <2>2 DEF Reported, Lines
<1>6. ASSUME NEW c \in 1..spawned, Forward(c) PROVE Reported'
  <2>n. PICK n : n = Len(said) + 1
    OBVIOUS
  <2>1. /\ said' = Append(said, c) /\ buffer' = Buffered(c, n)
        /\ UNCHANGED <<spawned, managed, report>>
    BY <1>6, <2>n DEF Forward
  <2>2. /\ Len(said') = n /\ said'[n] = c /\ n \in Nat
        /\ \A k \in 1..Len(said) : said'[k] = said[k]
    BY <1>0, <2>1, <2>n, AppendProperties DEF Shape
  <2>3. \A k \in 1..n : said'[k] \in 1..spawned
    BY <1>0, <2>2, <2>n DEF Reported
  <2>4. report.at \in Nat /\ report.at <= Len(said) /\ report.at <= Len(said')
    BY <1>0, <2>2, <2>n DEF Reported, Report
  <2>5. \A k \in 1..report.at : said'[k] = said[k]
    BY <1>0, <2>2, <2>4
  <2>6. Latest(said', report.tail, report.child, report.at)
    BY <1>0, <2>5 DEF Reported, Latest
  <2>7. ASSUME report.child # spawned PROVE Latest(said', buffer', spawned, n)
    <3>1. Latest(said, buffer, spawned, Len(said))
      BY <1>0, <2>7 DEF Reported
    <3>2. CASE c = spawned
      <4>1. buffer' = Pushed(n)
        BY <2>1, <3>2 DEF Buffered
      <4> QED
        BY <1>0, <2>2, <2>n, <3>1, <3>2, <4>1, LatestPushed
    <3>3. CASE c # spawned
      <4>1. buffer' = buffer
        BY <2>1, <3>3 DEF Buffered
      <4>2. \A k \in 1..n : said'[k] = spawned => k \in 1..Len(said) /\ said[k] = spawned
        BY <1>0, <2>2, <2>n, <3>3
      <4>3. \A k \in 1..Len(said) : k \in 1..n
        BY <1>0, <2>n
      <4> QED
        BY <2>2, <3>1, <4>1, <4>2, <4>3 DEF Latest
    <3> QED
      BY <3>2, <3>3
  <2> QED
    BY <1>0, <2>1, <2>2, <2>3, <2>4, <2>6, <2>7 DEF Reported, Lines
<1>7. CASE \/ (\E w \in inflight : Land(w)) \/ (\E i \in Inodes : Age(i))
           \/ Follow \/ FollowMissing \/ FollowCreate \/ Read \/ Reopen
           \/ Subscribe \/ FilterRead \/ Deliver \/ Lagged \/ UNCHANGED vars
  BY <1>1, <1>7
  DEF Land, Age, Follow, FollowMissing, FollowCreate, Read, Reopen, Subscribe, FilterRead,
      Deliver, Lagged, vars, children
<1> QED
  BY <1>3, <1>4, <1>5, <1>6, <1>7 DEF Next

-----------------------------------------------------------------------------
(* The invariant holds.                                                    *)

\* The first state, with or without a log left over from a larger max_files.
LEMMA InitInv == Init => OutputInv
<1> SUFFICES ASSUME Init PROVE OutputInv
  OBVIOUS
<1>1. /\ inflight = {} /\ aged = {} /\ said = <<>> /\ spawned = 0 /\ buffer = <<>>
      /\ managed = NONE /\ report = [child |-> NONE, tail |-> <<>>, at |-> 0]
      /\ follower = [pc |-> "off", inode |-> NONE, pos |-> 0, shown |-> <<>>,
                     since |-> 0, until |-> 0]
      /\ sub = [pc |-> "off", from |-> 0, next |-> 0, got |-> {}, missed |-> 0]
  BY DEF Init
<1>2. /\ MaxFiles \in Nat /\ TailCapacity \in Nat \ {0} /\ NONE \notin Nat
      /\ <<>> \in Seq(Nat) /\ Len(<<>>) = 0 /\ 1..0 = {}
  BY OutputAssumption
<1>3. /\ content \in Seq(Seq(Nat)) /\ files \in [Names -> Inodes \cup {NONE}]
      /\ files[0] = NONE /\ Len(content) \in Nat
      /\ \A i \in Names : files[i] # NONE => i = MaxFiles + 1
      /\ \A i \in Inodes : content[i] = <<>>
  <2>1. PICK leftover \in BOOLEAN :
          /\ files = [i \in Names |-> IF leftover /\ i = MaxFiles + 1 THEN 1 ELSE NONE]
          /\ content = IF leftover THEN <<<<>>>> ELSE <<>>
    BY DEF Init
  <2>2. 0 \in Names /\ 0 # MaxFiles + 1
    BY <1>2 DEF Names
  <2>3. CASE leftover
    <3>1. content = <<<<>>>> /\ content \in Seq(Seq(Nat)) /\ Len(content) = 1 /\ content[1] = <<>>
      BY <1>2, <2>1, <2>3
    <3>2. Inodes = {1}
      BY <3>1 DEF Inodes
    <3> QED
      BY <2>1, <2>2, <2>3, <3>1, <3>2
  <2>4. CASE ~leftover
    <3>1. content = <<>> /\ content \in Seq(Seq(Nat)) /\ Len(content) = 0
      BY <1>2, <2>1, <2>4
    <3>2. Inodes = {}
      BY <3>1 DEF Inodes
    <3> QED
      BY <2>1, <2>2, <2>4, <3>1, <3>2
  <2> QED
    BY <2>3, <2>4
<1>4. Shape
  BY <1>1, <1>2, <1>3 DEF Shape, Report, Follower, Sub
<1>5. Ranked
  BY <1>2, <1>3 DEF Ranked, Names
<1>6. \A i \in Inodes : \A n : ~At(n, i)
  BY <1>1, <1>2, <1>3 DEF At, Landed, Heading
<1>7. Placed
  BY <1>6 DEF Placed
<1>8. Once
  BY <1>1, <1>2, <1>3 DEF Once
<1>9. Dated
  BY <1>1, <1>2, <1>3 DEF Dated, Names
<1>10. Lines = {}
  BY <1>1, <1>2 DEF Lines
<1>11. Saved
  BY <1>1, <1>2, <1>3, <1>10 DEF Saved
<1>12. Following
  BY <1>1, <1>2 DEF Following
<1>13. Subscribed
  BY <1>1, FS_EmptySet DEF Subscribed
<1>14. Latest(said, <<>>, 0, 0) /\ Latest(said, <<>>, NONE, 0)
  BY <1>1, <1>2 DEF Latest
<1>15. Reported
  BY <1>1, <1>2, <1>10, <1>14 DEF Reported
<1> QED
  BY <1>4, <1>5, <1>7, <1>8, <1>9, <1>11, <1>12, <1>13, <1>15 DEF OutputInv

\* The invariant holds in every state of every run.
LEMMA OutputInvariant == Spec => []OutputInv
<1>1. OutputInv /\ [Next]_vars => OutputInv'
  BY ShapeStep, RankedStep, PlacedStep, OnceStep, DatedStep, SavedStep, FollowingStep,
     SubscribedStep, ReportedStep DEF OutputInv
<1> QED
  BY InitInv, <1>1, PTL DEF Spec

-----------------------------------------------------------------------------
(* What follows from it.                                                   *)

\* A line is in a file or on its way there, in the model's words and the invariant's.
LEMMA PlacesAt ==
    ASSUME Shape, NEW i \in Inodes, NEW n
    PROVE  n \in Places[i] <=> At(n, i)
<1>1. content[i] \in Seq(Nat) /\ DOMAIN content[i] = 1..Len(content[i])
  BY LenProperties, ElementOfSeq DEF Shape, Inodes
<1>2. Places[i] = Range(content[i]) \cup {w.line : w \in {v \in inflight : v.inode = i}}
  BY DEF Places
<1> QED
  BY <1>1, <1>2 DEF Range, At, Landed, Heading

\* The names are of files that exist, each of its own, the larger the suffix the older:
\* what rotation, the pool's writes and a follower's re-made file do to the directory.
THEOREM OutputTypeCorrect == Spec => []TypeOK
<1>1. OutputInv => TypeOK
  <2> SUFFICES ASSUME OutputInv PROVE TypeOK
    OBVIOUS
  <2>1. Shape /\ Ranked
    BY DEF OutputInv
  <2>2. \A w \in inflight : w.inode \in Inodes /\ w.line \in Lines
    BY <2>1 DEF Shape
  <2> QED
    BY <2>1, <2>2 DEF TypeOK, Shape, Ranked
<1> QED
  BY OutputInvariant, <1>1, PTL

\* No rotation, and no order of the pool's writes, puts a line of a child into an older
\* file than the lines the child printed before.
THEOREM LinesStayInOrder == Spec => []FilesInOrder
<1>1. OutputInv => FilesInOrder
  <2> SUFFICES ASSUME OutputInv,
                      NEW i \in Inodes, NEW j \in Inodes,
                      NEW m \in Places[i], NEW n \in Places[j], m < n
               PROVE  i <= j
    BY DEF FilesInOrder
  <2>1. Shape /\ Placed
    BY DEF OutputInv
  <2>2. At(m, i) /\ At(n, j)
    BY <2>1, PlacesAt
  <2>3. m \in Nat /\ n \in Nat
    <3>1. \A l \in Inodes : \A x : At(x, l) => x \in Nat
      <4> SUFFICES ASSUME NEW l \in Inodes, NEW x, At(x, l) PROVE x \in Nat
        OBVIOUS
      <4>1. content[l] \in Seq(Nat)
        BY <2>1, ElementOfSeq DEF Shape, Inodes
      <4>2. CASE Landed(x, l)
        BY <4>1, <4>2, ElementOfSeq DEF Landed
      <4>3. CASE Heading(x, l)
        BY <2>1, <4>3 DEF Heading, Shape, Lines
      <4> QED
        BY <4>2, <4>3 DEF At
    <3> QED
      BY <2>2, <3>1
  <2>4. m <= n
    BY <2>3
  <2> QED
    BY <2>1, <2>2, <2>3, <2>4 DEF Placed
<1> QED
  BY OutputInvariant, <1>1, PTL

\* A line is in the file it was handed to, or on its way, once; a follower shows it once;
\* and the only lines lost are those a follower's File::create emptied.
THEOREM NoLineLost == Spec => []LinesKept
<1>1. OutputInv => LinesKept
  <2> SUFFICES ASSUME OutputInv PROVE LinesKept
    OBVIOUS
  <2>1. Shape /\ Saved /\ Once /\ Following
    BY DEF OutputInv
  <2>2. \A n \in Lines :
          (\E i \in Inodes : n \in Places[i]) \/ (n > follower.since /\ n <= follower.until)
    BY <2>1, PlacesAt DEF Saved
  <2>3. ASSUME NEW i \in Inodes PROVE IsInjective(content[i])
    <3>1. DOMAIN content[i] = 1..Len(content[i])
      BY <2>1, LenProperties, ElementOfSeq DEF Shape, Inodes
    <3> QED
      BY <2>1, <3>1 DEF Once, IsInjective
  <2>4. IsInjective(follower.shown)
    <3>1. DOMAIN follower.shown = 1..Len(follower.shown)
      BY <2>1, LenProperties DEF Shape, Follower
    <3> QED
      BY <2>1, <3>1 DEF Following, IsInjective
  <2> QED
    BY <2>2, <2>3, <2>4 DEF LinesKept
<1> QED
  BY OutputInvariant, <1>1, PTL

\* Whatever the capacity of the bus, an event since the connection is delivered, to come,
\* or counted as missed.
THEOREM SubscriberCounts == Spec => []SubscriberMissesNothing
<1>1. OutputInv => SubscriberMissesNothing
  BY DEF OutputInv, Subscribed, SubscriberMissesNothing
<1> QED
  BY OutputInvariant, <1>1, PTL

\* A crash report holds the last lines of the child spawned last, and no line of the child
\* a reload replaced.
THEOREM ReportsAreLatest == Spec => []TailIsLatest
<1>1. OutputInv => TailIsLatest
  <2> SUFFICES ASSUME OutputInv PROVE TailIsLatest
    OBVIOUS
  <2>1. Latest(said, report.tail, report.child, report.at)
    BY DEF OutputInv, Reported
  <2>2. report.tail \in Seq(Nat) /\ DOMAIN report.tail = 1..Len(report.tail)
    BY LenProperties DEF OutputInv, Shape, Report
  <2>3. Range(report.tail) = {report.tail[k] : k \in 1..Len(report.tail)}
    BY <2>2 DEF Range
  <2> DEFINE lines == {n \in 1..report.at : said[n] = report.child}
  <2>4. Range(report.tail) \subseteq lines
    BY <2>1, <2>3 DEF Latest
  <2>5. ASSUME NEW n \in lines \ Range(report.tail)
        PROVE  Len(report.tail) = TailCapacity /\ \A m \in Range(report.tail) : n < m
    <3>1. ~ \E k \in 1..Len(report.tail) : report.tail[k] = n
      BY <2>3
    <3>2. n \in 1..report.at /\ said[n] = report.child
      OBVIOUS
    <3>3. Len(report.tail) = TailCapacity /\ \A k \in 1..Len(report.tail) : n < report.tail[k]
      BY <2>1, <3>1, <3>2 DEF Latest
    <3> QED
      BY <2>3, <3>3
  <2>6. Len(report.tail) <= TailCapacity
    BY <2>1 DEF Latest
  <2> QED
    BY <2>4, <2>5, <2>6 DEF TailIsLatest
<1> QED
  BY OutputInvariant, <1>1, PTL

-----------------------------------------------------------------------------
(* Retention.                                                              *)

\* A rotation that drops the last file has as many newer ones as are to be kept.
LEMMA NewerFiles ==
    ASSUME Shape, Ranked, Dated, Full, files[MaxFiles] # NONE
    PROVE  Cardinality({y \in OnDisk : y > files[MaxFiles]}) >= MaxFiles
<1>0. /\ MaxFiles \in Nat /\ MaxFiles > 0 /\ NONE \notin Nat /\ Len(content) \in Nat
      /\ \A i \in 0..MaxFiles : i \in Names
      /\ files[0] # NONE
  BY OutputAssumption, LenProperties DEF Full, Shape, Names
<1>1. ASSUME NEW i \in 0..(MaxFiles - 1)
      PROVE  i \in Names /\ files[i] # NONE /\ files[i] \in OnDisk /\ files[i] > files[MaxFiles]
  <2>1. i \in Names /\ MaxFiles \in Names /\ i < MaxFiles
    BY <1>0
  <2>2. files[i] # NONE
    <3>1. CASE i = 0
      BY <1>0, <3>1
    <3>2. CASE i # 0
      BY <1>0, <3>2 DEF Dated
    <3> QED
      BY <3>1, <3>2
  <2> QED
    BY <2>1, <2>2 DEF Ranked, OnDisk
<1> DEFINE newer == {y \in OnDisk : y > files[MaxFiles]}
           f     == [i \in 0..(MaxFiles - 1) |-> files[i]]
<1>2. IsFiniteSet(newer)
  <2>1. newer \in SUBSET (1..Len(content))
    BY DEF OnDisk, Shape, Inodes
  <2>2. IsFiniteSet(1..Len(content))
    BY <1>0, FS_Interval
  <2> HIDE DEF newer
  <2> QED
    BY <2>1, <2>2, FS_Subset
<1>3. f \in Injection(0..(MaxFiles - 1), newer)
  <2>1. f \in [0..(MaxFiles - 1) -> newer]
    BY <1>1
  <2>2. ASSUME NEW i \in 0..(MaxFiles - 1), NEW j \in 0..(MaxFiles - 1), f[i] = f[j]
        PROVE  i = j
    <3>1. files[i] = files[j] /\ files[i] \in Nat /\ files[j] \in Nat
      BY <1>0, <1>1, <2>2 DEF Shape, Inodes
    <3>2. ~(files[i] > files[j]) /\ ~(files[j] > files[i])
      BY <3>1
    <3>3. ~(i < j) /\ ~(j < i)
      BY <1>1, <3>2 DEF Ranked
    <3> QED
      BY <1>0, <3>3
  <2>3. IsInjective(f)
    BY <2>2 DEF IsInjective
  <2> QED
    BY <2>1, <2>3 DEF Injection
<1>4. Cardinality(0..(MaxFiles - 1)) <= Cardinality(newer)
  <2> HIDE DEF f, newer
  <2> QED
    BY <1>2, <1>3, FS_Injection
<1>5. Cardinality(0..(MaxFiles - 1)) = MaxFiles
  BY <1>0, FS_Interval
<1>6. Cardinality(newer) \in Nat
  BY <1>2, FS_CardinalityType
<1> QED
  BY <1>0, <1>4, <1>5, <1>6

\* Whatever max_size, max_files and max_days are, a log file goes away only when it is too
\* old, or newer ones fill the places there are, or max_files was larger before.
THEOREM RetentionKeepsFiles == Spec => RetentionKeeps
<1> DEFINE Keeps == \A x \in OnDisk \ OnDisk' :
                       \/ x \in aged
                       \/ Cardinality({y \in OnDisk : y > x}) >= MaxFiles
                       \/ x = files[MaxFiles + 1]
<1>1. ASSUME OutputInv, [Next]_vars PROVE Keeps
  <2>0. /\ Shape /\ Ranked /\ Dated /\ MaxFiles \in Nat /\ 0 \in Names
        /\ Names = 0..(MaxFiles + 1) /\ MaxFiles + 1 \in Names
    BY <1>1, OutputAssumption DEF OutputInv, Names
  <2>1. ASSUME \A i \in Names : files[i] # NONE => files'[i] = files[i]
        PROVE  OnDisk \subseteq OnDisk'
    BY <2>1 DEF OnDisk, Names
  <2>2. CASE Spawn
    <3> SUFFICES ASSUME NEW x \in OnDisk, x \notin OnDisk', x \notin aged,
                        x # files[MaxFiles + 1]
                 PROVE  Cardinality({y \in OnDisk : y > x}) >= MaxFiles
      OBVIOUS
    <3>1. PICK i \in Names : files[i] = x /\ x # NONE
      BY DEF OnDisk
    <3>2. i \in 0..MaxFiles
      BY <2>0, <3>1
    <3>3. \A j \in Names : files'[j] # x
      <4>1. Names' = Names
        BY DEF Names
      <4> QED
        BY <3>1, <4>1 DEF OnDisk
    <3>4. Full
      <4> SUFFICES ASSUME ~Full PROVE FALSE
        OBVIOUS
      <4>1. files'[i] = x
        BY <1>1, <2>0, <2>2, <3>1, <3>2, SpawnMoves
      <4> QED
        BY <3>3, <4>1
    <3>5. ~(i < MaxFiles)
      <4> SUFFICES ASSUME i < MaxFiles PROVE FALSE
        OBVIOUS
      <4>1. i + 1 \in 1..MaxFiles /\ (i + 1) - 1 = i /\ i + 1 \in Names
        BY <2>0, <3>2
      <4>2. files'[i + 1] = x
        BY <2>0, <2>2, <3>1, <3>4, <4>1, SpawnMoves
      <4> QED
        BY <3>3, <4>1, <4>2
    <3>6. i = MaxFiles
      BY <2>0, <3>2, <3>5
    <3> QED
      BY <2>0, <3>1, <3>4, <3>6, NewerFiles
  <2>3. CASE Made
    <3>1. \A i \in Names : files[i] # NONE => files'[i] = files[i]
      BY <2>0, <2>3, MadeOpens DEF Opened
    <3> QED
      BY <2>1, <3>1
  <2>4. CASE UNCHANGED files
    BY <2>1, <2>4
  <2>5. CASE \E c \in 1..spawned : Forward(c)
    BY <2>3, <2>5 DEF Forward
  <2>6. CASE FollowCreate
    BY <2>3, <2>4, <2>6 DEF FollowCreate
  <2>7. CASE Quiet \/ (\E w \in inflight : Land(w)) \/ (\E i \in Inodes : Age(i))
    BY <2>4, <2>7 DEF Quiet, Land, Age
  <2> QED
    BY <1>1, <2>2, <2>5, <2>6, <2>7, DiskSteps
<1>2. OutputInv /\ [Next]_vars => [Keeps]_vars
  BY <1>1
<1> QED
  BY OutputInvariant, <1>2, PTL DEF Spec, RetentionKeeps

=============================================================================
