----------------------------- MODULE TailProofs ------------------------------
(***************************************************************************)
(* The file worker, for every log, buffer, limit and number of failures:   *)
(* no line becomes two rows, the kept offset passes over none, rows are    *)
(* written in order, and a rotation discards only what was not seen; a     *)
(* first read begins where Limit says, and a log that only grows is read   *)
(* as LineReader reads it.                                                 *)
(***************************************************************************)
EXTENDS Tail, FiniteSetTheorems, WellFoundedInduction, TLAPS

Pcs == {"idle", "open", "read", "finish", "rotate", "reset", "panic"}

\* Where reading goes on, as an offset of the file.
Place == IF pc \in {"read", "finish", "panic"} THEN pos ELSE offset

-----------------------------------------------------------------------------
(***************************************************************************)
(* The inductive invariant.                                                *)
(***************************************************************************)

Shape == /\ sent \in Nat /\ base \in Nat /\ base <= sent
         /\ truncs \in Nat /\ offset \in Nat /\ pos \in Nat
         /\ eof \in Nat /\ eof <= sent
         /\ buf \in Seq(Nat)
         /\ rows \in [NL -> 0..1]
         /\ pc \in Pcs
         /\ tailPhase = "busy" <=> pc # "idle"

\* A row is written for a line that is gone, or that ends before the place.
RowsBehind ==
  \A e \in NL :
    rows[e] > 0 =>
      e <= base \/ (pc # "reset" /\ e <= base + Place /\ base + Place <= sent)

\* The buffer holds bytes of the stream in order, those of the file that is
\* there where they belong, and none of a line that is a row.
BufferAhead ==
  pc = "read" =>
    /\ \A i, j \in 1..Len(buf) : i < j => buf[i] < buf[j]
    /\ \A i \in 1..Len(buf) :
         /\ buf[i] <= sent
         /\ buf[i] > base => buf[i] = base + pos + i
         /\ \A e \in NL : rows[e] > 0 => e < buf[i]

\* Without other programs: the place is the start of a line of the file, and
\* the buffer follows it.
PlaceIsLine ==
  truncs = 0 =>
    /\ pc # "reset" => /\ Place = 0 \/ base + Place \in NL
                       /\ base + Place <= sent
                       /\ offset <= Place
    /\ pc = "read" => \A i \in 1..Len(buf) : buf[i] = base + pos + i
    /\ ~rotator => base = 0 /\ pc \notin {"rotate", "reset"}

\* Without other programs: every line of the file that ends before the place is
\* a row, and no line ends between the place and the end the run has met.
PlaceCovers ==
  truncs = 0 =>
    IF pc = "reset" THEN eof <= base
    ELSE /\ \A e \in RowLines :
              base < LineStart(e) /\ e <= base + Place => rows[e] = 1
         /\ \A e \in NL : base < e /\ e <= eof => e <= base + Place

TailInv == Shape /\ RowsBehind /\ BufferAhead /\ PlaceIsLine /\ PlaceCovers

-----------------------------------------------------------------------------
(***************************************************************************)
(* Where lines start.                                                      *)
(***************************************************************************)

\* A set of numbers has a least element.
LEMMA LeastExists ==
  ASSUME NEW S, S \subseteq Nat, S # {}
  PROVE  \E x \in S : \A y \in S : x <= y
<1>1. \E Less : /\ IsWellFoundedOn(Less, Nat)
                /\ \A x, y \in Nat : y < x => <<y, x>> \in Less
  <2>1. \A x, y \in Nat : y < x => <<y, x>> \in OpToRel(<, Nat)
    BY Zenon DEF OpToRel
  <2> QED
    BY <2>1, NatLessThanWellFounded, Zenon
<1>2. PICK Less : /\ IsWellFoundedOn(Less, Nat)
                  /\ \A x, y \in Nat : y < x => <<y, x>> \in Less
  BY <1>1
<1>3. PICK x \in S : \A y \in S : ~(<<y, x>> \in Less)
  BY <1>2, WFMin
<1>4. \A y \in S : ~(y < x)
  BY <1>2, <1>3
<1> QED
  BY <1>4

\* A set of numbers with a bound has a greatest element.
LEMMA GreatestExists ==
  ASSUME NEW n \in Nat, NEW S, S \subseteq 0..n, S # {}
  PROVE  Max(S) \in S /\ \A k \in S : k <= Max(S)
<1> DEFINE Bounds == {b \in Nat : \A k \in S : k <= b}
<1>1. n \in Bounds /\ \A k \in S : k \in Nat
  OBVIOUS
<1>2. PICK b \in Bounds : \A c \in Bounds : b <= c
  BY <1>1, LeastExists
<1>3. ASSUME b \notin S PROVE FALSE
  <2>1. \A k \in S : k <= b - 1
    BY <1>1, <1>3
  <2>2. b \in Nat /\ \E k \in S : k \in Nat
    BY <1>1
  <2>3. b - 1 \in Nat
    BY <1>1, <2>1, <2>2
  <2>4. b - 1 \in Bounds
    BY <2>1, <2>3
  <2> QED
    BY <1>2, <2>2, <2>4
<1>4. \E x \in S : \A y \in S : x >= y
  BY <1>3
<1>5. Max(S) \in S /\ \A y \in S : Max(S) >= y
  BY <1>4 DEF Max
<1> QED
  BY <1>1, <1>5

\* A line starts behind the newline before it, or with the log.
LEMMA LinesStart ==
  ASSUME NEW e \in NL
  PROVE  /\ LineStart(e) \in 1..e
         /\ LineStart(e) - 1 \in {0} \cup NL
         /\ \A n \in NL : n < e => n < LineStart(e)
<1> DEFINE before == {0} \cup {n \in NL : n < e}
<1>1. e \in Nat /\ e > 0 /\ NL \subseteq Nat
  BY TailAssumption
<1>2. \A n \in before : n \in Nat /\ n < e
  BY <1>1
<1>3. 0 \in before
  OBVIOUS
<1>4. LineStart(e) = Max(before) + 1
  BY DEF LineStart
<1> HIDE DEF before
<1>5. Max(before) \in before /\ \A k \in before : k <= Max(before)
  <2>1. before \subseteq 0..e
    BY <1>1, <1>2
  <2> QED
    BY <1>1, <1>3, <2>1, GreatestExists
<1>6. LineStart(e) - 1 = Max(before)
  BY <1>2, <1>4, <1>5
<1>7. Max(before) \in Nat /\ Max(before) < e
  BY <1>2, <1>5
<1>8. LineStart(e) \in 1..e
  BY <1>1, <1>4, <1>7
<1>9. LineStart(e) - 1 \in {0} \cup NL
  BY <1>5, <1>6 DEF before
<1>10. ASSUME NEW n \in NL, n < e PROVE n < LineStart(e)
  <2>1. n \in before /\ n \in Nat
    BY <1>1, <1>10 DEF before
  <2> QED
    BY <1>4, <1>5, <1>7, <2>1
<1> QED
  BY <1>8, <1>9, <1>10

\* Two sequences of positions, one after the other.
LEMMA Joined ==
  ASSUME NEW s \in Seq(Nat), NEW t \in Seq(Nat)
  PROVE  /\ s \o t \in Seq(Nat) /\ Len(s \o t) = Len(s) + Len(t)
         /\ \A i \in 1..Len(s) : (s \o t)[i] = s[i]
         /\ \A i \in (Len(s) + 1)..(Len(s) + Len(t)) : (s \o t)[i] = t[i - Len(s)]
  OBVIOUS

\* What is left of a sequence of positions when the first i are taken.
LEMMA Behind ==
  ASSUME NEW s \in Seq(Nat), NEW i \in 1..Len(s)
  PROVE  LET t == SubSeq(s, i + 1, Len(s))
         IN /\ t \in Seq(Nat) /\ Len(t) = Len(s) - i
            /\ \A k \in 1..Len(t) : t[k] = s[i + k]
  OBVIOUS

\* The first i of them.
LEMMA Before ==
  ASSUME NEW s \in Seq(Nat), NEW i \in 1..Len(s)
  PROVE  LET t == SubSeq(s, 1, i)
         IN /\ t \in Seq(Nat) /\ Len(t) = i
            /\ \A k \in 1..i : t[k] = s[k]
            /\ Last(t) = s[i]
  BY DEF Last

-----------------------------------------------------------------------------
(***************************************************************************)
(* The backward scan for the first offset.                                 *)
(***************************************************************************)

\* A stretch of the file has finitely many newlines, and those of its two parts.
LEMMA NewlinesSplit ==
  ASSUME NEW a \in Nat, NEW b \in Nat, NEW c \in Nat, a <= b, b <= c
  PROVE  /\ IsFiniteSet(NewlinesIn(a, c)) /\ Cardinality(NewlinesIn(a, c)) \in Nat
         /\ Cardinality(NewlinesIn(a, c))
              = Cardinality(NewlinesIn(a, b)) + Cardinality(NewlinesIn(b, c))
<1>1. ASSUME NEW m \in Nat, NEW n \in Nat
      PROVE  IsFiniteSet(NewlinesIn(m, n)) /\ Cardinality(NewlinesIn(m, n)) \in Nat
  <2>1. NewlinesIn(m, n) \in SUBSET ((m + 1)..n)
    BY DEF NewlinesIn
  <2>2. IsFiniteSet((m + 1)..n)
    BY FS_Interval
  <2> QED
    BY <2>1, <2>2, FS_Subset, FS_CardinalityType
<1>2. NewlinesIn(a, c) = NewlinesIn(a, b) \cup NewlinesIn(b, c)
  BY DEF NewlinesIn
<1>3. NewlinesIn(a, b) \cap NewlinesIn(b, c) = {}
  BY DEF NewlinesIn
<1>4. Cardinality({}) = 0
  BY FS_EmptySet
<1>5. /\ IsFiniteSet(NewlinesIn(a, c)) /\ Cardinality(NewlinesIn(a, c)) \in Nat
      /\ IsFiniteSet(NewlinesIn(a, b)) /\ Cardinality(NewlinesIn(a, b)) \in Nat
      /\ IsFiniteSet(NewlinesIn(b, c)) /\ Cardinality(NewlinesIn(b, c)) \in Nat
  BY <1>1
<1>6. Cardinality(NewlinesIn(a, b) \cup NewlinesIn(b, c))
        = Cardinality(NewlinesIn(a, b)) + Cardinality(NewlinesIn(b, c)) - Cardinality({})
  BY <1>3, <1>5, FS_Union
<1> QED
  BY <1>2, <1>4, <1>5, <1>6

\* Of a set of positions as many as one likes are the last ones.
LEMMA LastOnes ==
  ASSUME NEW n \in Nat, NEW S, \A j \in S : j \in Nat /\ j >= 1 /\ j <= n,
         NEW m \in Nat \ {0}, m <= Cardinality(S)
  PROVE  \E i \in S : Cardinality({j \in S : j >= i}) = m
<1> DEFINE From(k) == {j \in S : j >= k}
           Enough == {k \in 0..n : Cardinality(From(k)) >= m}
<1>1. \A k : IsFiniteSet(From(k)) /\ Cardinality(From(k)) \in Nat
  <2>1. S \in SUBSET (1..n)
    OBVIOUS
  <2>2. IsFiniteSet(1..n)
    BY FS_Interval
  <2>3. IsFiniteSet(S)
    BY <2>1, <2>2, FS_Subset
  <2>4. \A k : From(k) \in SUBSET S
    OBVIOUS
  <2> HIDE DEF From
  <2> QED
    BY <2>3, <2>4, FS_Subset, FS_CardinalityType
<1>2. /\ From(0) = S
      /\ From(n + 1) = {}
      /\ \A k \in Nat : k \notin S => From(k) = From(k + 1)
      /\ \A k \in S : From(k) = From(k + 1) \cup {k} /\ k \notin From(k + 1)
  <2>1. From(0) = S
    OBVIOUS
  <2>2. From(n + 1) = {}
    OBVIOUS
  <2>3. ASSUME NEW k \in Nat, k \notin S PROVE From(k) = From(k + 1)
    BY <2>3
  <2>4. ASSUME NEW k \in S PROVE From(k) = From(k + 1) \cup {k} /\ k \notin From(k + 1)
    <3>1. k \in Nat
      OBVIOUS
    <3>2. \A x : x \in From(k) => x \in From(k + 1) \cup {k}
      BY <3>1
    <3>3. \A x : x \in From(k + 1) \cup {k} => x \in From(k)
      BY <3>1
    <3>4. k \notin From(k + 1)
      BY <3>1
    <3> HIDE DEF From
    <3> QED
      BY <3>2, <3>3, <3>4
  <2> QED
    BY <2>1, <2>2, <2>3, <2>4
<1> HIDE DEF From
<1>3. 0 \in Enough /\ Enough \subseteq 0..n
  BY <1>2
<1> DEFINE k == Max(Enough)
<1>4. k \in Enough /\ \A l \in Enough : l <= k
  <2> HIDE DEF Enough
  <2> QED
    BY <1>3, GreatestExists
<1> HIDE DEF k
<1>5. k \in Nat /\ k <= n /\ Cardinality(From(k)) >= m
  BY <1>4
<1>6. Cardinality(From(k + 1)) < m
  <2>1. CASE k = n
    <3>1. Cardinality(From(k + 1)) = 0
      BY <1>2, <2>1, FS_EmptySet
    <3> QED
      BY <3>1
  <2>2. CASE k < n
    <3>1. k + 1 \in 0..n /\ k + 1 \notin Enough
      BY <1>4, <1>5, <2>2
    <3> QED
      BY <1>1, <3>1
  <2> QED
    BY <1>5, <2>1, <2>2
<1>7. k \in S
  BY <1>1, <1>2, <1>5, <1>6
<1>8. Cardinality(From(k)) = Cardinality(From(k + 1)) + 1
  BY <1>1, <1>2, <1>7, FS_AddElement
<1>9. Cardinality(From(k)) = m
  BY <1>1, <1>5, <1>6, <1>8
<1> QED
  BY <1>7, <1>9 DEF From

\* What the scan returns at byte o, when it returns r further down.
BlockStart(o) == IF o < BufferSize THEN 0 ELSE o - BufferSize

Scanned(r, lines, last, count, o) ==
  LET found == NewlinesIn(BlockStart(o), o)
      missing == lines + 1 - (count + Cardinality(NewlinesIn(o, last)))
  IN IF o = 0 \/ missing <= 0 THEN 0
     ELSE IF Cardinality(found) < missing THEN r
     ELSE CHOOSE i \in found : Cardinality({j \in found : j >= i}) = missing

\* A block starts further down.
LEMMA BlocksStart ==
  ASSUME NEW o \in Nat, o # 0
  PROVE  BlockStart(o) \in 0..(o - 1)
  BY TailAssumption DEF BlockStart

\* The start of the file needs nothing further down.
LEMMA ScannedFirst ==
  ASSUME NEW r, NEW lines, NEW last, NEW count
  PROVE  Scanned(r, lines, last, count, 0) = 0
  BY Zenon DEF Scanned

\* There is a function that scans, and the scan is that function at its start.
LEMMA ScanIs ==
  ASSUME NEW lines, NEW last \in Nat, NEW count
  PROVE  \E f : /\ ScanBack(lines, last, count) = f[last]
               /\ \A o \in 0..last : f[o] = Scanned(f[BlockStart(o)], lines, last, count, o)
<1> DEFINE Step(r, o) == Scanned(r, lines, last, count, o)
           Upto(n) == \E g : \A o \in 0..n : g[o] = Step(g[BlockStart(o)], o)
           Missing == {n \in 0..last : ~Upto(n)}
<1>1. \A r : Step(r, 0) = 0
  BY ScannedFirst
<1> HIDE DEF Step
<1>2. Upto(0)
  <2> DEFINE g == [o \in 0..0 |-> 0]
  <2>1. \A o \in 0..0 : o = 0 /\ g[o] = 0
    OBVIOUS
  <2> HIDE DEF g
  <2> QED
    BY <1>1, <2>1
<1>3. ASSUME NEW n \in Nat, Upto(n) PROVE Upto(n + 1)
  <2>1. PICK g : \A o \in 0..n : g[o] = Step(g[BlockStart(o)], o)
    BY <1>3
  <2> DEFINE next == Step(g[BlockStart(n + 1)], n + 1)
             h == [o \in 0..(n + 1) |-> IF o <= n THEN g[o] ELSE next]
  <2> HIDE DEF next
  <2>2. (\A o \in 0..n : h[o] = g[o]) /\ h[n + 1] = next
    OBVIOUS
  <2> HIDE DEF h
  <2>3. ASSUME NEW o \in 0..(n + 1), o # 0 PROVE h[BlockStart(o)] = g[BlockStart(o)]
    <3>1. BlockStart(o) \in 0..n
      BY <2>3, BlocksStart
    <3> QED
      BY <2>2, <3>1
  <2>4. ASSUME NEW o \in 0..(n + 1) PROVE h[o] = Step(h[BlockStart(o)], o)
    <3>1. h[o] = Step(g[BlockStart(o)], o)
      <4>1. CASE o \in 0..n
        BY <2>1, <2>2, <4>1
      <4>2. CASE o = n + 1
        BY <2>2, <4>2 DEF next
      <4> QED
        BY <4>1, <4>2
    <3>2. CASE o = 0
      BY <1>1, <3>1, <3>2
    <3>3. CASE o # 0
      BY <2>3, <3>1, <3>3
    <3> QED
      BY <3>2, <3>3
  <2> QED
    BY <2>4
<1>4. Upto(last)
  <2> HIDE DEF Upto
  <2> SUFFICES ASSUME Missing # {} PROVE FALSE
    OBVIOUS
  <2>1. Missing \subseteq Nat
    OBVIOUS
  <2>2. PICK n \in Missing : \A k \in Missing : n <= k
    BY <2>1, LeastExists
  <2>3. n \in Nat /\ n # 0 /\ n <= last /\ ~Upto(n)
    BY <1>2, <2>1
  <2>4. n - 1 \in Nat /\ Upto(n - 1)
    BY <2>2, <2>3
  <2>5. Upto(n - 1 + 1) /\ n - 1 + 1 = n
    BY <1>3, <2>3, <2>4
  <2> QED
    BY <2>3, <2>5
<1>5. PICK g : \A o \in 0..last : g[o] = Step(g[BlockStart(o)], o)
  BY <1>4
<1> DEFINE f == [o \in 0..last |-> g[o]]
<1>6. \A o \in 0..last : f[o] = g[o]
  OBVIOUS
<1>7. f = [o \in 0..last |-> f[o]]
  OBVIOUS
<1> HIDE DEF f
<1>8. ASSUME NEW o \in 0..last PROVE f[o] = Step(f[BlockStart(o)], o)
  <2>1. CASE o = 0
    BY <1>1, <1>5, <1>6, <2>1
  <2>2. CASE o # 0
    <3>1. BlockStart(o) \in 0..last
      BY <2>2, BlocksStart
    <3> QED
      BY <1>5, <1>6, <3>1
  <2> QED
    BY <2>1, <2>2
<1>9. f = [o \in 0..last |-> Step(f[BlockStart(o)], o)]
  BY <1>7, <1>8
<1> DEFINE scan == CHOOSE h : h = [o \in 0..last |-> Step(h[BlockStart(o)], o)]
<1>10. scan = [o \in 0..last |-> Step(scan[BlockStart(o)], o)]
  BY <1>9, Zenon
<1>11. ScanBack(lines, last, count) = scan[last]
  BY Zenon DEF ScanBack, Scanned, BlockStart, Step
<1> HIDE DEF scan
<1>12. \A o \in 0..last : scan[o] = Step(scan[BlockStart(o)], o)
  BY <1>10
<1> QED
  BY <1>11, <1>12 DEF Step

\* It finds the newline with the lines asked for behind it, or the start of a
\* file that has no more lines, wherever its blocks end.
LEMMA ScanFinds ==
  ASSUME NEW lines \in Nat, NEW last \in Nat, NEW count \in Nat, count <= lines
  PROVE  LET r == ScanBack(lines, last, count)
         IN \/ r = 0 /\ count + Cardinality(NewlinesIn(0, last)) <= lines
            \/ /\ r \in NewlinesIn(0, last)
               /\ count + Cardinality(NewlinesIn(r, last)) = lines
<1>1. PICK f : /\ ScanBack(lines, last, count) = f[last]
               /\ \A o \in 0..last : f[o] = Scanned(f[BlockStart(o)], lines, last, count, o)
  BY ScanIs
<1> DEFINE Counted(o) == count + Cardinality(NewlinesIn(o, last))
           Right(o) == Counted(o) <= lines =>
                         \/ f[o] = 0 /\ Counted(0) <= lines
                         \/ f[o] \in NewlinesIn(0, o) /\ Counted(f[o]) = lines
           Wrong == {o \in 0..last : ~Right(o)}
<1>2. Right(0)
  BY <1>1, ScannedFirst
<1>3. ASSUME NEW o \in 1..last, Right(BlockStart(o)) PROVE Right(o)
  <2> SUFFICES ASSUME Counted(o) <= lines
               PROVE  \/ f[o] = 0 /\ Counted(0) <= lines
                      \/ f[o] \in NewlinesIn(0, o) /\ Counted(f[o]) = lines
    OBVIOUS
  <2> DEFINE start == BlockStart(o)
             found == NewlinesIn(start, o)
             missing == lines + 1 - Counted(o)
  <2>1. start \in Nat /\ start < o
    BY BlocksStart
  <2>2. /\ Cardinality(found) \in Nat /\ Counted(o) \in Nat
        /\ Counted(start) = Cardinality(found) + Counted(o)
    <3>1. o \in Nat /\ o <= last /\ o <= o /\ last <= last
      OBVIOUS
    <3>2. /\ Cardinality(found) \in Nat /\ Cardinality(NewlinesIn(o, last)) \in Nat
          /\ Cardinality(NewlinesIn(start, last))
               = Cardinality(found) + Cardinality(NewlinesIn(o, last))
      BY <2>1, <3>1, NewlinesSplit
    <3> QED
      BY <3>2
  <2>3. f[o] = Scanned(f[start], lines, last, count, o)
    BY <1>1
  <2>4. missing \in Nat \ {0}
    BY <2>2
  <2>5. CASE Cardinality(found) < missing
    <3>1. f[o] = f[start]
      BY <2>3, <2>4, <2>5 DEF Scanned
    <3>2. Counted(start) <= lines
      BY <2>2, <2>5
    <3>3. NewlinesIn(0, start) \subseteq NewlinesIn(0, o)
      BY <2>1 DEF NewlinesIn
    <3> QED
      BY <1>3, <3>1, <3>2, <3>3
  <2>6. CASE Cardinality(found) >= missing
    <3> DEFINE IsIt(i) == Cardinality({j \in found : j >= i}) = missing
    <3>1. found \subseteq 1..o
      BY <2>1 DEF NewlinesIn
    <3>2. \E i \in found : IsIt(i)
      <4>1. missing <= Cardinality(found) /\ o \in Nat
        BY <2>2, <2>4, <2>6
      <4>2. \A j \in found : j \in Nat /\ j >= 1 /\ j <= o
        BY <3>1
      <4> HIDE DEF found, missing
      <4> QED
        BY <2>4, <4>1, <4>2, LastOnes
    <3>3. f[o] = CHOOSE i \in found : IsIt(i)
      <4>1. o # 0 /\ ~(missing <= 0) /\ ~(Cardinality(found) < missing)
        BY <2>2, <2>4, <2>6
      <4> QED
        BY <2>3, <4>1, Zenon DEF Scanned
    <3>4. f[o] \in found /\ IsIt(f[o])
      <4> HIDE DEF found, IsIt
      <4> QED
        BY <3>2, <3>3, Zenon
    <3>5. f[o] \in Nat /\ f[o] <= o /\ f[o] > start
      BY <2>1, <3>1, <3>4 DEF NewlinesIn
    <3>6. /\ {j \in found : j >= f[o]} = NewlinesIn(f[o], o) \cup {f[o]}
          /\ f[o] \notin NewlinesIn(f[o], o)
      BY <2>1, <3>4, <3>5 DEF NewlinesIn
    <3>7. /\ IsFiniteSet(NewlinesIn(f[o], o)) /\ Cardinality(NewlinesIn(f[o], o)) \in Nat
          /\ Cardinality(NewlinesIn(f[o], last))
               = Cardinality(NewlinesIn(f[o], o)) + Cardinality(NewlinesIn(o, last))
      <4>1. o \in Nat /\ o <= last /\ o <= o
        OBVIOUS
      <4>2. PICK i \in Nat : i = f[o]
        BY <3>5
      <4>3. /\ IsFiniteSet(NewlinesIn(i, o)) /\ Cardinality(NewlinesIn(i, o)) \in Nat
            /\ Cardinality(NewlinesIn(i, last))
                 = Cardinality(NewlinesIn(i, o)) + Cardinality(NewlinesIn(o, last))
        BY <3>5, <4>1, <4>2, NewlinesSplit
      <4> QED
        BY <4>2, <4>3
    <3>8. Cardinality(NewlinesIn(f[o], o)) + 1 = missing
      BY <3>4, <3>6, <3>7, FS_AddElement
    <3>9. f[o] \in NewlinesIn(0, o)
      BY <2>1, <3>4, <3>5 DEF NewlinesIn
    <3>10. Counted(f[o]) = lines
      <4>1. Cardinality(NewlinesIn(o, last)) \in Nat
        <5>1. o \in Nat /\ o <= last /\ o <= o
          OBVIOUS
        <5> QED
          BY <5>1, NewlinesSplit
      <4> QED
        BY <3>7, <3>8, <4>1
    <3> QED
      BY <3>9, <3>10
  <2> QED
    BY <2>2, <2>4, <2>5, <2>6
<1>4. Right(last)
  <2> HIDE DEF Right
  <2> SUFFICES ASSUME Wrong # {} PROVE FALSE
    OBVIOUS
  <2>1. Wrong \subseteq Nat
    OBVIOUS
  <2>2. PICK o \in Wrong : \A k \in Wrong : o <= k
    BY <2>1, LeastExists
  <2>3. o \in 1..last /\ ~Right(o)
    BY <1>2, <2>1
  <2>4. BlockStart(o) \in 0..last /\ BlockStart(o) < o
    BY <2>3, BlocksStart
  <2>5. Right(BlockStart(o))
    BY <2>2, <2>3, <2>4
  <2> QED
    BY <1>3, <2>3, <2>5
<1>5. Cardinality(NewlinesIn(last, last)) = 0
  <2>1. NewlinesIn(last, last) = {}
    BY DEF NewlinesIn
  <2> QED
    BY <2>1, FS_EmptySet
<1> QED
  BY <1>1, <1>4, <1>5

\* The first offset for a number of lines: that many lines follow it, or it is
\* the start of the file and there are no more, whatever the last byte is.
LEMMA FirstRead ==
  ASSUME sent \in Nat, base \in Nat, base <= sent, NEW lines \in Nat \ {0}
  PROVE  LET o == getFileOffset(lines)
             after == Cardinality(NewlinesIn(o, FileSize))
         IN \/ o = 0 /\ after <= lines
            \/ o \in NewlinesIn(0, FileSize) /\ after = lines
<1>1. CASE FileSize = 0
  <2>1. getFileOffset(lines) = 0
    BY <1>1 DEF getFileOffset
  <2>2. NewlinesIn(0, 0) = {}
    BY DEF NewlinesIn
  <2> QED
    BY <1>1, <2>1, <2>2, FS_EmptySet
<1>2. CASE FileSize # 0
  <2> DEFINE last == FileSize - 1
             count == Cardinality(NewlinesIn(last, FileSize))
             o == ScanBack(lines, last, count)
  <2>1. last \in Nat /\ FileSize = last + 1
    BY <1>2 DEF FileSize
  <2>2. getFileOffset(lines) = o
    BY <1>2, Zenon DEF getFileOffset
  <2>3. count \in Nat /\ count <= 1
    <3>1. NewlinesIn(last, FileSize) \in SUBSET {last + 1}
      BY <2>1 DEF NewlinesIn
    <3>2. IsFiniteSet({last + 1}) /\ Cardinality({last + 1}) = 1
      BY FS_Singleton
    <3> HIDE DEF last
    <3> QED
      BY <3>1, <3>2, FS_Subset, FS_CardinalityType
  <2> HIDE DEF last, count
  <2>4. \/ o = 0 /\ count + Cardinality(NewlinesIn(0, last)) <= lines
        \/ /\ o \in NewlinesIn(0, last)
           /\ count + Cardinality(NewlinesIn(o, last)) = lines
    BY <2>1, <2>3, ScanFinds
  <2> HIDE DEF o
  <2>5. o \in Nat /\ o <= last /\ (o # 0 => o \in NewlinesIn(0, FileSize))
    BY <2>1, <2>4 DEF NewlinesIn
  <2>6. o = 0 \/ o \in NewlinesIn(0, last)
    BY <2>4
  <2>7. /\ Cardinality(NewlinesIn(o, last)) \in Nat
        /\ Cardinality(NewlinesIn(o, FileSize)) = Cardinality(NewlinesIn(o, last)) + count
    <3>1. last <= last /\ last <= last + 1 /\ last + 1 \in Nat
      BY <2>1
    <3>2. PICK i \in Nat : i = o
      BY <2>5
    <3>3. Cardinality(NewlinesIn(i, last)) \in Nat
      BY <2>1, <2>5, <3>1, <3>2, NewlinesSplit
    <3>4. Cardinality(NewlinesIn(i, last + 1))
            = Cardinality(NewlinesIn(i, last)) + Cardinality(NewlinesIn(last, last + 1))
      BY <2>1, <2>5, <3>1, <3>2, NewlinesSplit
    <3> QED
      BY <2>1, <3>2, <3>3, <3>4 DEF count
  <2>8. CASE o = 0 /\ count + Cardinality(NewlinesIn(0, last)) <= lines
    BY <2>2, <2>3, <2>7, <2>8
  <2>9. CASE /\ o \in NewlinesIn(0, last)
             /\ count + Cardinality(NewlinesIn(o, last)) = lines
    <3>1. o \in NewlinesIn(0, FileSize)
      BY <2>1, <2>9 DEF NewlinesIn
    <3>2. Cardinality(NewlinesIn(o, FileSize)) = lines
      BY <2>3, <2>7, <2>9
    <3> QED
      BY <2>2, <3>1, <3>2
  <2> QED
    BY <2>4, <2>8, <2>9
<1> QED
  BY <1>1, <1>2

\* A worker starts where a line of the log starts.
LEMMA FirstOffset == TailInit => offset = 0 \/ (offset \in NL /\ offset <= sent)
<1> SUFFICES ASSUME TailInit, offset # 0 PROVE offset \in NL /\ offset <= sent
  OBVIOUS
<1>1. sent \in Nat /\ base = 0 /\ offset \in FirstOffsets /\ NL \subseteq Nat
  BY TailAssumption DEF TailInit
<1>2. CASE offset \in {n \in NL : n <= sent}
  BY <1>2
<1>3. CASE Limit # 0 /\ offset = getFileOffset(Limit)
  <2>1. Limit \in Nat \ {0} /\ base \in Nat /\ base <= sent
    BY <1>1, <1>3, TailAssumption
  <2>2. offset \in NewlinesIn(0, FileSize)
    BY <1>1, <1>3, <2>1, FirstRead
  <2>3. offset \in 1..sent /\ 0 + offset \in NL
    BY <1>1, <2>2 DEF NewlinesIn, FileSize
  <2> QED
    BY <1>1, <2>3
<1> QED
  BY <1>1, <1>2, <1>3 DEF FirstOffsets

-----------------------------------------------------------------------------
(***************************************************************************)
(* Steps.                                                                  *)
(***************************************************************************)

\* A step that moves no place: of the debouncer and the watcher, a run that
\* begins or fails, and the end of a run that keeps what it has reached.
LEMMA PlaceStays ==
  ASSUME TailInv,
         UNCHANGED <<sent, base, truncs, rotator, pos, buf, eof, rows>>,
         pc' \in Pcs, tailPhase' = "busy" <=> pc' # "idle",
         pc' = "reset" <=> pc = "reset", Place' = Place,
         offset' \in {offset, Place},
         pc' = "read" => pc = "read",
         pc' = "rotate" => pc = "rotate" \/ rotator
  PROVE  TailInv'
<1>1. Shape /\ RowsBehind /\ BufferAhead /\ PlaceIsLine /\ PlaceCovers
  BY DEF TailInv
<1>2. Place \in Nat
  BY <1>1 DEF Shape, Place
<1>3. Shape'
  BY <1>1, <1>2 DEF Shape
<1>4. RowsBehind'
  BY <1>1 DEF RowsBehind
<1>5. BufferAhead'
  BY <1>1 DEF BufferAhead
<1>6. PlaceIsLine'
  BY <1>1, <1>2 DEF PlaceIsLine, Shape
<1>7. PlaceCovers'
  BY <1>1 DEF PlaceCovers
<1> QED
  BY <1>3, <1>4, <1>5, <1>6, <1>7 DEF TailInv

\* Bytes that are read follow those in the buffer.
LEMMA FillKeeps == TailInv /\ Fill => TailInv'
<1> SUFFICES ASSUME TailInv, Fill PROVE TailInv'
  OBVIOUS
<1>1. Shape /\ RowsBehind /\ BufferAhead /\ PlaceIsLine /\ PlaceCovers
  BY DEF TailInv
<1>2. /\ pc = "read" /\ Unread > 0 /\ Place = pos /\ Place' = Place
      /\ UNCHANGED <<sent, base, truncs, rotator, offset, pc, pos, eof, rows, tailPhase>>
  BY DEF Fill, fileVars, envVars, trigVars, Place
<1>3. buf \in Seq(Nat) /\ Len(buf) \in Nat /\ sent \in Nat /\ base \in Nat /\ pos \in Nat
  BY <1>1 DEF Shape
<1> DEFINE room == Chunk - (Len(buf) % Chunk)
           n == IF Unread < room THEN Unread ELSE room
           more == [i \in 1..n |-> base + pos + Len(buf) + i]
<1>4. buf' = buf \o more
  BY DEF Fill
<1>5. n \in Nat /\ n <= Unread
  <2>1. Unread \in Int
    BY <1>3 DEF Unread, FileSize
  <2>2. Len(buf) % Chunk \in 0..(Chunk - 1)
    BY <1>3, TailAssumption
  <2>3. room \in Nat
    BY <2>2, TailAssumption
  <2> QED
    BY <1>2, <2>1, <2>3
<1> HIDE DEF room, n
<1>6. /\ buf' \in Seq(Nat) /\ Len(buf') >= Len(buf) /\ pos + Len(buf') <= sent - base
      /\ \A i \in 1..Len(buf) : buf'[i] = buf[i]
      /\ \A i \in (Len(buf) + 1)..Len(buf') : buf'[i] = base + pos + i
  <2>1. /\ more \in Seq(Nat) /\ Len(more) = n
        /\ \A i \in 1..n : more[i] = base + pos + Len(buf) + i
    BY <1>3, <1>5
  <2> HIDE DEF more
  <2>2. /\ buf \o more \in Seq(Nat) /\ Len(buf \o more) = Len(buf) + Len(more)
        /\ \A i \in 1..Len(buf) : (buf \o more)[i] = buf[i]
        /\ \A i \in (Len(buf) + 1)..(Len(buf) + Len(more)) :
             (buf \o more)[i] = more[i - Len(buf)]
    BY <1>3, <2>1, Joined
  <2>3. /\ buf' \in Seq(Nat) /\ Len(buf') = Len(buf) + n
        /\ \A i \in 1..Len(buf) : buf'[i] = buf[i]
        /\ \A i \in (Len(buf) + 1)..Len(buf') : buf'[i] = more[i - Len(buf)]
    BY <1>4, <2>1, <2>2
  <2> QED
    BY <1>3, <1>5, <2>1, <2>3 DEF Unread, FileSize
<1>7. Shape'
  BY <1>1, <1>2, <1>6 DEF Shape
<1>8. RowsBehind'
  BY <1>1, <1>2 DEF RowsBehind
<1>9. BufferAhead'
  <2> SUFFICES ASSUME NEW i \in 1..Len(buf')
               PROVE  /\ buf'[i] <= sent
                      /\ buf'[i] > base => buf'[i] = base + pos + i
                      /\ \A j \in 1..Len(buf') : i < j => buf'[i] < buf'[j]
                      /\ \A e \in NL : rows[e] > 0 => e < buf'[i]
    BY <1>2 DEF BufferAhead
  <2>1. CASE i \in 1..Len(buf)
    <3>1. /\ buf'[i] = buf[i] /\ buf[i] \in Nat /\ buf[i] <= sent
          /\ buf[i] > base => buf[i] = base + pos + i
          /\ \A j \in 1..Len(buf) : i < j => buf[i] < buf[j]
          /\ \A e \in NL : rows[e] > 0 => e < buf[i]
      BY <1>1, <1>2, <1>6, <2>1 DEF BufferAhead, Shape
    <3>2. ASSUME NEW j \in 1..Len(buf'), i < j PROVE buf'[i] < buf'[j]
      <4>1. CASE j \in 1..Len(buf)
        BY <1>6, <3>1, <3>2, <4>1
      <4>2. CASE j \in (Len(buf) + 1)..Len(buf')
        <5>1. buf'[j] = base + pos + j
          BY <1>6, <4>2
        <5> QED
          BY <1>3, <3>1, <3>2, <5>1
      <4> QED
        BY <1>3, <4>1, <4>2
    <3> QED
      BY <3>1, <3>2
  <2>2. CASE i \in (Len(buf) + 1)..Len(buf')
    <3>1. /\ buf'[i] = base + pos + i /\ Len(buf') \in Nat
          /\ \A j \in 1..Len(buf') : i < j => buf'[j] = base + pos + j
      BY <1>3, <1>6, <2>2
    <3>2. \A e \in NL : rows[e] > 0 => e < buf'[i]
      BY <1>1, <1>2, <1>3, <2>2, <3>1, TailAssumption DEF RowsBehind
    <3> QED
      BY <1>3, <1>6, <2>2, <3>1, <3>2
  <2> QED
    BY <1>3, <2>1, <2>2
<1>10. PlaceIsLine'
  <2>1. truncs = 0 => \A i \in 1..Len(buf') : buf'[i] = base + pos + i
    <3> SUFFICES ASSUME truncs = 0, NEW i \in 1..Len(buf')
                 PROVE  buf'[i] = base + pos + i
      OBVIOUS
    <3>1. CASE i \in 1..Len(buf)
      BY <1>1, <1>2, <1>6, <3>1 DEF PlaceIsLine
    <3>2. CASE i \in (Len(buf) + 1)..Len(buf')
      BY <1>6, <3>2
    <3> QED
      BY <1>3, <3>1, <3>2
  <2> QED
    BY <1>1, <1>2, <2>1 DEF PlaceIsLine
<1>11. PlaceCovers'
  BY <1>1, <1>2 DEF PlaceCovers
<1> QED
  BY <1>7, <1>8, <1>9, <1>10, <1>11 DEF TailInv

\* A line that is taken is no row yet.  Without other programs it begins where
\* the place is, unless a rotation cut its start off, and becomes the row the
\* parser makes of it.
LEMMA LineTaken ==
  ASSUME TailInv, TakeLine
  PROVE  \E i \in 1..Len(buf) :
           /\ pc = "read" /\ buf[i] \in NL /\ \A j \in 1..(i - 1) : buf[j] \notin NL
           /\ pc' \in {"read", "panic"}
           /\ UNCHANGED <<sent, base, truncs, rotator, offset, eof, tailPhase>>
           /\ pos' = pos + i
           /\ buf' \in Seq(Nat) /\ Len(buf') = Len(buf) - i
           /\ \A k \in 1..Len(buf') : buf'[k] = buf[i + k]
           /\ rows[buf[i]] = 0
           /\ rows' \in {rows, [rows EXCEPT ![buf[i]] = 1]}
           /\ truncs = 0 /\ buf[i] \in RowLines /\ base < LineStart(buf[i]) =>
                rows' = [rows EXCEPT ![buf[i]] = 1]
<1>1. Shape /\ BufferAhead /\ PlaceIsLine
  BY DEF TailInv
<1>2. PICK i \in 1..Len(buf) :
        /\ pc = "read" /\ buf[i] \in NL /\ \A j \in 1..(i - 1) : buf[j] \notin NL
        /\ buf' = SubSeq(buf, i + 1, Len(buf))
        /\ pos' = pos + i
        /\ UNCHANGED <<sent, base, truncs, rotator, offset, eof, tailPhase>>
        /\ \/ i = 1 /\ UNCHANGED <<pc, rows>>
           \/ /\ i > 1
              /\ \E outcome \in Parsed(SubSeq(buf, 1, i)) :
                   /\ pc' = IF outcome = "nil" /\ HasExt THEN "panic" ELSE "read"
                   /\ rows' = IF /\ outcome = "row" /\ Intact(SubSeq(buf, 1, i))
                                /\ rows[buf[i]] < 2
                              THEN [rows EXCEPT ![buf[i]] = @ + 1] ELSE rows
  BY DEF TakeLine, fileVars, envVars, trigVars
<1> DEFINE e == buf[i]
           line == SubSeq(buf, 1, i)
<1>3. /\ buf \in Seq(Nat) /\ sent \in Nat /\ base \in Nat /\ pos \in Nat
      /\ rows \in [NL -> 0..1]
  BY <1>1 DEF Shape
<1>4. rows[e] = 0
  <2>1. e \in Nat /\ (rows[e] > 0 => e < e)
    BY <1>1, <1>2, <1>3 DEF BufferAhead
  <2> QED
    BY <1>2, <1>3, <2>1
<1>5. /\ buf' \in Seq(Nat) /\ Len(buf') = Len(buf) - i
      /\ \A k \in 1..Len(buf') : buf'[k] = buf[i + k]
  BY <1>2, <1>3, Behind
<1>6. /\ line \in Seq(Nat) /\ Len(line) = i /\ Last(line) = e
      /\ \A k \in 1..i : line[k] = buf[k]
  BY <1>2, <1>3, Before
<1>7. [rows EXCEPT ![e] = @ + 1] = [rows EXCEPT ![e] = 1]
  BY <1>2, <1>3, <1>4
<1> HIDE DEF line
<1>8. pc' \in {"read", "panic"} /\ rows' \in {rows, [rows EXCEPT ![e] = 1]}
  BY <1>2, <1>7 DEF line
<1>9. ASSUME truncs = 0, e \in RowLines, base < LineStart(e)
      PROVE  rows' = [rows EXCEPT ![e] = 1]
  <2>1. \A k \in 1..Len(buf) : buf[k] = base + pos + k
    BY <1>1, <1>2, <1>9 DEF PlaceIsLine
  <2>2. pos = 0 \/ base + pos \in NL
    BY <1>1, <1>2, <1>9 DEF PlaceIsLine, Place
  <2>3. /\ LineStart(e) \in 1..e /\ LineStart(e) - 1 \in {0} \cup NL
        /\ \A n \in NL : n < e => n < LineStart(e)
    BY <1>2, LinesStart
  <2>4. e = base + pos + i /\ e \in Nat /\ i \in Nat /\ LineStart(e) \in Nat
    BY <1>2, <1>3, <2>1, <2>3
  <2>5. LineStart(e) > base + pos
    BY <1>3, <1>9, <2>2, <2>3, <2>4
  <2>6. ASSUME LineStart(e) > base + pos + 1 PROVE FALSE
    <3> DEFINE j == LineStart(e) - 1 - base - pos
    <3>1. LineStart(e) - 1 = base + pos + j /\ j > 0 /\ j < i /\ j \in Int
      BY <1>3, <2>3, <2>4, <2>6
    <3> HIDE DEF j
    <3>2. j \in 1..(i - 1) /\ j \in 1..Len(buf) /\ LineStart(e) - 1 # 0
      BY <1>3, <2>4, <3>1
    <3>3. buf[j] = LineStart(e) - 1
      BY <2>1, <3>1, <3>2
    <3> QED
      BY <1>2, <2>3, <3>2, <3>3
  <2>7. LineStart(e) = base + pos + 1
    BY <1>3, <2>4, <2>5, <2>6
  <2>8. Intact(line)
    <3>1. \A k \in 1..i : line[k] = base + pos + k
      BY <1>3, <1>6, <2>1
    <3>2. \A k \in 2..Len(line) : line[k] = line[k - 1] + 1
      BY <1>3, <1>6, <2>4, <3>1
    <3>3. line[1] = LineStart(e)
      BY <1>3, <2>4, <2>7, <3>1
    <3> QED
      BY <1>6, <3>2, <3>3 DEF Intact
  <2>9. i > 1
    BY <1>3, <1>9, <2>3, <2>4, <2>7 DEF RowLines, Blank
  <2>10. Parsed(line) = {"row"}
    BY <1>6, <1>9, <2>8 DEF Parsed, RowLines
  <2> QED
    BY <1>2, <1>4, <1>7, <2>8, <2>9, <2>10 DEF line
<1> QED
  BY <1>2, <1>4, <1>5, <1>8, <1>9

\* Between the place and the newline that comes first in the buffer there is none.
LEMMA NothingBetween ==
  ASSUME TailInv, pc = "read", truncs = 0, NEW i \in 1..Len(buf),
         \A j \in 1..(i - 1) : buf[j] \notin NL
  PROVE  /\ buf[i] = base + pos + i
         /\ \A f \in NL : f < buf[i] => f <= base + pos
<1>1. /\ buf \in Seq(Nat) /\ Len(buf) \in Nat /\ base \in Nat /\ pos \in Nat /\ NL \subseteq Nat
      /\ \A k \in 1..Len(buf) : buf[k] = base + pos + k
  BY TailAssumption DEF TailInv, Shape, PlaceIsLine
<1>2. ASSUME NEW f \in NL, f < buf[i], f > base + pos PROVE FALSE
  <2> DEFINE j == f - base - pos
  <2>1. /\ j \in 1..(i - 1) /\ j \in 1..Len(buf)
        /\ f = base + pos + j
    BY <1>1, <1>2
  <2> HIDE DEF j
  <2>2. buf[j] = f
    BY <1>1, <2>1
  <2> QED
    BY <2>1, <2>2
<1>3. \A f \in NL : f < buf[i] => f <= base + pos
  BY <1>1, <1>2
<1> QED
  BY <1>1, <1>3

\* Taking a line.
LEMMA TakeKeeps == TailInv /\ TakeLine => TailInv'
<1> SUFFICES ASSUME TailInv, TakeLine PROVE TailInv'
  OBVIOUS
<1>1. Shape /\ RowsBehind /\ BufferAhead /\ PlaceIsLine /\ PlaceCovers
  BY DEF TailInv
<1>2. PICK i \in 1..Len(buf) :
        /\ pc = "read" /\ buf[i] \in NL /\ \A j \in 1..(i - 1) : buf[j] \notin NL
        /\ pc' \in {"read", "panic"}
        /\ UNCHANGED <<sent, base, truncs, rotator, offset, eof, tailPhase>>
        /\ pos' = pos + i
        /\ buf' \in Seq(Nat) /\ Len(buf') = Len(buf) - i
        /\ \A k \in 1..Len(buf') : buf'[k] = buf[i + k]
        /\ rows[buf[i]] = 0
        /\ rows' \in {rows, [rows EXCEPT ![buf[i]] = 1]}
        /\ truncs = 0 /\ buf[i] \in RowLines /\ base < LineStart(buf[i]) =>
             rows' = [rows EXCEPT ![buf[i]] = 1]
  BY LineTaken
<1> DEFINE e == buf[i]
<1>3. /\ buf \in Seq(Nat) /\ Len(buf) \in Nat /\ sent \in Nat /\ base \in Nat /\ pos \in Nat
      /\ i \in Nat /\ i > 0 /\ i <= Len(buf) /\ base <= sent
      /\ rows \in [NL -> 0..1] /\ NL \subseteq Nat /\ e \in NL
  BY <1>1, <1>2, TailAssumption DEF Shape
<1>4. Place = pos /\ Place' = pos + i
  BY <1>2 DEF Place
<1>5. /\ e <= sent /\ (e > base => e = base + pos + i)
      /\ \A f \in NL : rows[f] > 0 => f < e
      /\ \A k \in 1..Len(buf') :
           /\ e < buf'[k] /\ buf'[k] <= sent
           /\ buf'[k] > base => buf'[k] = base + pos' + k
      /\ \A j, k \in 1..Len(buf') : j < k => buf'[j] < buf'[k]
  <2>1. /\ e <= sent /\ (e > base => e = base + pos + i)
        /\ \A f \in NL : rows[f] > 0 => f < e
    BY <1>1, <1>2 DEF BufferAhead
  <2>2. ASSUME NEW k \in 1..Len(buf')
        PROVE  /\ e < buf'[k] /\ buf'[k] <= sent
               /\ buf'[k] > base => buf'[k] = base + pos' + k
    <3>1. i + k \in 1..Len(buf) /\ i < i + k /\ buf'[k] = buf[i + k]
      BY <1>2, <1>3
    <3> QED
      BY <1>1, <1>2, <1>3, <3>1 DEF BufferAhead
  <2>3. ASSUME NEW j \in 1..Len(buf'), NEW k \in 1..Len(buf'), j < k
        PROVE  buf'[j] < buf'[k]
    <3>1. /\ i + j \in 1..Len(buf) /\ i + k \in 1..Len(buf) /\ i + j < i + k
          /\ buf'[j] = buf[i + j] /\ buf'[k] = buf[i + k]
      BY <1>2, <1>3, <2>3
    <3> QED
      BY <1>1, <1>2, <3>1 DEF BufferAhead
  <2> QED
    BY <2>1, <2>2, <2>3
<1>6. /\ rows' \in [NL -> 0..1]
      /\ \A f \in NL : rows'[f] >= rows[f] /\ (f # e => rows'[f] = rows[f])
  <2>1. CASE rows' = rows
    BY <1>3, <2>1
  <2>2. CASE rows' = [rows EXCEPT ![e] = 1]
    <3>1. \A f \in NL : rows'[f] = IF f = e THEN 1 ELSE rows[f]
      BY <1>3, <2>2
    <3>2. rows' \in [NL -> 0..1]
      BY <1>3, <2>2
    <3>3. rows'[e] >= rows[e]
      BY <1>2, <1>3, <3>1
    <3>4. ASSUME NEW f \in NL, f # e PROVE rows'[f] = rows[f] /\ rows'[f] >= rows[f]
      BY <1>3, <3>1, <3>4
    <3> QED
      BY <3>2, <3>3, <3>4
  <2> QED
    BY <1>2, <2>1, <2>2
<1> HIDE DEF e
<1>7. Shape'
  BY <1>1, <1>2, <1>3, <1>6 DEF Shape, Pcs
<1>8. RowsBehind'
  <2> SUFFICES ASSUME NEW f \in NL, rows'[f] > 0
               PROVE  f <= base \/ (f <= base + (pos + i) /\ base + (pos + i) <= sent)
    <3>1. pc' # "reset" /\ base' = base /\ sent' = sent
      BY <1>2
    <3>2. Place' = pos + i
      BY <1>4
    <3> QED
      BY <3>1, <3>2 DEF RowsBehind
  <2>1. f <= e /\ f \in Nat /\ e \in Nat
    <3>1. CASE f = e
      BY <1>3, <3>1
    <3>2. CASE f # e
      BY <1>3, <1>5, <1>6, <3>2
    <3> QED
      BY <3>1, <3>2
  <2> QED
    BY <1>3, <1>5, <2>1
<1>9. BufferAhead'
  <2> SUFFICES ASSUME NEW k \in 1..Len(buf'), NEW f \in NL, rows'[f] > 0
               PROVE  f < buf'[k]
    BY <1>2, <1>5 DEF BufferAhead
  <2>1. f <= e /\ f \in Nat /\ e \in Nat
    <3>1. CASE f = e
      BY <1>3, <3>1
    <3>2. CASE f # e
      BY <1>3, <1>5, <1>6, <3>2
    <3> QED
      BY <3>1, <3>2
  <2>2. buf'[k] \in Nat
    BY <1>2
  <2> QED
    BY <1>5, <2>1, <2>2
<1>10. ASSUME truncs = 0
       PROVE  /\ \A k \in 1..Len(buf) : buf[k] = base + pos + k
              /\ e = base + pos + i /\ offset \in Nat /\ offset <= pos
              /\ \A f \in NL : f < e => f <= base + pos
  <2>1. /\ \A k \in 1..Len(buf) : buf[k] = base + pos + k
        /\ offset \in Nat /\ offset <= pos
    BY <1>1, <1>2, <1>4, <1>10 DEF PlaceIsLine, Shape
  <2>2. e = base + pos + i /\ \A f \in NL : f < e => f <= base + pos
    BY <1>2, <1>10, NothingBetween DEF e
  <2> QED
    BY <2>1, <2>2
<1>11. PlaceIsLine'
  <2> SUFFICES ASSUME truncs = 0 PROVE PlaceIsLine'
    BY <1>2 DEF PlaceIsLine
  <2>1. \A k \in 1..Len(buf') : buf'[k] = base + pos + i + k
    <3> SUFFICES ASSUME NEW k \in 1..Len(buf') PROVE buf'[k] = base + pos + i + k
      OBVIOUS
    <3>1. i + k \in 1..Len(buf) /\ buf'[k] = buf[i + k]
      BY <1>2, <1>3
    <3> QED
      BY <1>3, <1>10, <3>1
  <2>2. base + (pos + i) \in NL /\ base + (pos + i) <= sent /\ offset <= pos + i
    BY <1>3, <1>5, <1>10
  <2>3. ~rotator => base = 0
    BY <1>1 DEF PlaceIsLine
  <2> QED
    BY <1>2, <1>3, <1>4, <2>1, <2>2, <2>3 DEF PlaceIsLine
<1>12. PlaceCovers'
  <2> SUFFICES ASSUME truncs = 0 PROVE PlaceCovers'
    BY <1>2 DEF PlaceCovers
  <2>1. /\ \A f \in RowLines : base < LineStart(f) /\ f <= base + pos => rows[f] = 1
        /\ \A f \in NL : base < f /\ f <= eof => f <= base + pos
    BY <1>1, <1>2, <1>4 DEF PlaceCovers
  <2>2. ASSUME NEW f \in RowLines, base < LineStart(f), f <= base + pos + i
        PROVE  rows'[f] = 1
    <3>1. f \in NL /\ f \in Nat
      BY <1>3 DEF RowLines
    <3>2. CASE f = e
      BY <1>2, <1>3, <2>2, <3>2 DEF e
    <3>3. CASE f # e
      BY <1>3, <1>6, <1>10, <2>1, <2>2, <3>1, <3>3
    <3> QED
      BY <3>2, <3>3
  <2>3. \A f \in NL : base < f /\ f <= eof => f <= base + (pos + i)
    BY <1>3, <2>1
  <2> QED
    BY <1>2, <1>3, <1>4, <2>2, <2>3 DEF PlaceCovers
<1> QED
  BY <1>7, <1>8, <1>9, <1>11, <1>12 DEF TailInv

\* The file is opened: one shorter than the offset is read from its start.
LEMMA OpenKeeps == TailInv /\ Open => TailInv'
<1> SUFFICES ASSUME TailInv, Open PROVE TailInv'
  OBVIOUS
<1>1. Shape /\ RowsBehind /\ BufferAhead /\ PlaceIsLine /\ PlaceCovers
  BY DEF TailInv
<1>2. /\ pc = "open" /\ pc' = "read" /\ buf' = <<>>
      /\ pos' = IF offset > FileSize THEN 0 ELSE offset
      /\ Place = offset /\ Place' = pos'
      /\ UNCHANGED <<sent, base, truncs, rotator, offset, eof, rows, tailPhase>>
  BY DEF Open, fileVars, envVars, trigVars, Place
<1>3. sent \in Nat /\ base \in Nat /\ offset \in Nat /\ base <= sent /\ NL \subseteq Nat
  BY <1>1, TailAssumption DEF Shape
<1>4. \/ pos' = offset /\ base + offset <= sent
      \/ pos' = 0 /\ base + offset > sent
  BY <1>2, <1>3 DEF FileSize
<1>5. Shape'
  BY <1>1, <1>2, <1>3, <1>4 DEF Shape, Pcs
<1>6. RowsBehind'
  BY <1>1, <1>2, <1>3, <1>4 DEF RowsBehind
<1>7. BufferAhead'
  BY <1>2 DEF BufferAhead
<1>8. truncs = 0 => pos' = offset
  BY <1>1, <1>2, <1>3, <1>4 DEF PlaceIsLine
<1>9. PlaceIsLine'
  BY <1>1, <1>2, <1>3, <1>8 DEF PlaceIsLine
<1>10. PlaceCovers'
  BY <1>1, <1>2, <1>3, <1>8 DEF PlaceCovers
<1> QED
  BY <1>5, <1>6, <1>7, <1>9, <1>10 DEF TailInv

\* The end of the file is met: a line that has ended by then has been taken.
LEMMA EndOfFileKeeps == TailInv /\ EndOfFile => TailInv'
<1> SUFFICES ASSUME TailInv, EndOfFile PROVE TailInv'
  OBVIOUS
<1>1. Shape /\ RowsBehind /\ BufferAhead /\ PlaceIsLine /\ PlaceCovers
  BY DEF TailInv
<1>2. /\ pc = "read" /\ pc' = "finish" /\ NoLine /\ Unread <= 0 /\ eof' = sent
      /\ Place = pos /\ Place' = pos
      /\ UNCHANGED <<sent, base, truncs, rotator, offset, pos, buf, rows, tailPhase>>
  BY DEF EndOfFile, fileVars, envVars, trigVars, Place
<1>3. /\ sent \in Nat /\ base \in Nat /\ pos \in Nat /\ base <= sent /\ NL \subseteq Nat
      /\ Len(buf) \in Nat
  BY <1>1, TailAssumption DEF Shape
<1>4. Shape'
  BY <1>1, <1>2, <1>3 DEF Shape, Pcs
<1>5. RowsBehind' /\ BufferAhead' /\ PlaceIsLine'
  BY <1>1, <1>2 DEF RowsBehind, BufferAhead, PlaceIsLine
<1>6. ASSUME truncs = 0, NEW e \in NL, base < e, e <= sent, e > base + pos PROVE FALSE
  <2> DEFINE k == e - base - pos
  <2>1. k \in 1..Len(buf) /\ e = base + pos + k
    BY <1>2, <1>3, <1>6 DEF Unread, FileSize
  <2> HIDE DEF k
  <2>2. buf[k] = e
    BY <1>1, <1>2, <1>6, <2>1 DEF PlaceIsLine
  <2> QED
    BY <1>2, <2>1, <2>2 DEF NoLine
<1>7. \A e \in NL : truncs = 0 /\ base < e /\ e <= sent => e <= base + pos
  BY <1>3, <1>6
<1>8. PlaceCovers'
  BY <1>1, <1>2, <1>7 DEF PlaceCovers
<1> QED
  BY <1>4, <1>5, <1>8 DEF TailInv

\* An empty file, the file's truncation by its worker, and the reset of the
\* offset after it: nothing of what was read is in the file any more.
LEMMA CutKeeps == TailInv /\ (OpenEmpty \/ Rotate \/ Reset) => TailInv'
<1> SUFFICES ASSUME TailInv, OpenEmpty \/ Rotate \/ Reset PROVE TailInv'
  OBVIOUS
<1>1. Shape /\ RowsBehind /\ BufferAhead /\ PlaceIsLine /\ PlaceCovers
  BY DEF TailInv
<1>2. /\ sent \in Nat /\ base \in Nat /\ offset \in Nat /\ base <= sent /\ NL \subseteq Nat
      /\ eof \in Nat /\ eof <= sent
  BY <1>1, TailAssumption DEF Shape
<1>3. \A e \in NL : rows[e] > 0 => e <= sent
  BY <1>1, <1>2 DEF RowsBehind, Place, Shape
<1>4. \A e \in RowLines : e \in NL /\ LineStart(e) \in 1..e
  BY LinesStart DEF RowLines
<1>5. CASE OpenEmpty \/ Reset
  <2>1. /\ pc' = "idle" /\ tailPhase' = "idle" /\ Place' = 0 /\ offset' = 0
        /\ pc # "read"
        /\ UNCHANGED <<sent, base, truncs, rotator, pos, buf, eof, rows>>
    BY <1>5 DEF OpenEmpty, Reset, EndTail, D!End, fileVars, envVars, runVars, Place
  <2>2. /\ \A e \in NL : rows[e] > 0 => e <= base
        /\ truncs = 0 => eof <= base
    <3>1. CASE OpenEmpty
      <4>1. sent = base
        BY <1>2, <3>1 DEF OpenEmpty, FileSize
      <4> QED
        BY <1>2, <1>3, <4>1
    <3>2. CASE Reset
      <4>1. pc = "reset"
        BY <3>2 DEF Reset
      <4> QED
        BY <1>1, <4>1 DEF RowsBehind, PlaceCovers
    <3> QED
      BY <1>5, <3>1, <3>2
  <2>3. Shape' /\ BufferAhead'
    BY <1>1, <2>1 DEF Shape, BufferAhead, Pcs
  <2>4. RowsBehind'
    BY <2>1, <2>2 DEF RowsBehind
  <2>5. PlaceIsLine'
    BY <1>1, <1>2, <2>1 DEF PlaceIsLine
  <2>6. PlaceCovers'
    <3>1. \A e \in RowLines : ~(base < LineStart(e) /\ e <= base + 0)
      <4> SUFFICES ASSUME NEW e \in RowLines, base < LineStart(e), e <= base + 0 PROVE FALSE
        OBVIOUS
      <4>1. e \in Nat /\ LineStart(e) \in 1..e
        BY <1>2, <1>4
      <4> QED
        BY <1>2, <4>1
    <3>2. truncs = 0 => \A e \in NL : ~(base < e /\ e <= eof)
      BY <1>2, <2>2
    <3> QED
      BY <2>1, <3>1, <3>2 DEF PlaceCovers
  <2> QED
    BY <2>3, <2>4, <2>5, <2>6 DEF TailInv
<1>6. CASE Rotate
  <2>1. /\ pc = "rotate" /\ pc' = "reset" /\ base' = sent
        /\ UNCHANGED <<sent, truncs, rotator, offset, pos, buf, eof, rows, tailPhase>>
    BY <1>6 DEF Rotate, envVars, trigVars, runVars
  <2>2. Shape' /\ BufferAhead'
    BY <1>1, <2>1 DEF Shape, BufferAhead, Pcs
  <2>3. RowsBehind'
    BY <1>3, <2>1 DEF RowsBehind
  <2>4. PlaceIsLine' /\ PlaceCovers'
    BY <1>1, <1>2, <2>1 DEF PlaceIsLine, PlaceCovers
  <2> QED
    BY <2>2, <2>3, <2>4 DEF TailInv
<1> QED
  BY <1>5, <1>6

\* The writer appends, or another program truncates the file.
LEMMA FileKeeps == TailInv /\ (LogWrite \/ ExternalTruncate) => TailInv'
<1> SUFFICES ASSUME TailInv, LogWrite \/ ExternalTruncate PROVE TailInv'
  OBVIOUS
<1>1. Shape /\ RowsBehind /\ BufferAhead /\ PlaceIsLine /\ PlaceCovers
  BY DEF TailInv
<1>2. /\ sent \in Nat /\ base \in Nat /\ truncs \in Nat /\ base <= sent /\ NL \subseteq Nat
      /\ Place \in Nat
  BY <1>1, TailAssumption DEF Shape, Place
<1>3. /\ UNCHANGED <<rotator, offset, pc, pos, buf, eof, rows, tailPhase>>
      /\ Place' = Place
  BY DEF LogWrite, ExternalTruncate, envVars, trigVars, runVars, Place
<1>4. CASE LogWrite
  <2>1. sent' \in Nat /\ sent' >= sent /\ UNCHANGED <<base, truncs>>
    BY <1>2, <1>4, TailAssumption DEF LogWrite
  <2>2. Shape'
    BY <1>1, <1>3, <2>1 DEF Shape
  <2>3. RowsBehind'
    BY <1>1, <1>2, <1>3, <2>1 DEF RowsBehind
  <2>4. BufferAhead'
    <3>1. \A i \in 1..Len(buf) : buf[i] \in Nat
      BY <1>1 DEF Shape
    <3> QED
      BY <1>1, <1>2, <1>3, <2>1, <3>1 DEF BufferAhead
  <2>5. PlaceIsLine' /\ PlaceCovers'
    BY <1>1, <1>2, <1>3, <2>1 DEF PlaceIsLine, PlaceCovers
  <2> QED
    BY <2>2, <2>3, <2>4, <2>5 DEF TailInv
<1>5. CASE ExternalTruncate
  <2>1. base' = sent /\ truncs' = truncs + 1 /\ sent' = sent
    BY <1>5 DEF ExternalTruncate
  <2>2. Shape'
    BY <1>1, <1>3, <2>1 DEF Shape
  <2>3. RowsBehind'
    <3>1. \A e \in NL : rows[e] > 0 => e <= sent
      BY <1>1, <1>2 DEF RowsBehind
    <3> QED
      BY <1>3, <2>1, <3>1 DEF RowsBehind
  <2>4. BufferAhead'
    <3>1. \A i \in 1..Len(buf) : buf[i] \in Nat
      BY <1>1 DEF Shape
    <3> QED
      BY <1>1, <1>2, <1>3, <2>1, <3>1 DEF BufferAhead
  <2>5. PlaceIsLine' /\ PlaceCovers'
    BY <1>2, <2>1 DEF PlaceIsLine, PlaceCovers
  <2> QED
    BY <2>2, <2>3, <2>4, <2>5 DEF TailInv
<1> QED
  BY <1>4, <1>5

-----------------------------------------------------------------------------
(***************************************************************************)
(* The invariant holds.                                                    *)
(***************************************************************************)

\* The first offset is where a line starts; what is before it counts as rows.
LEMMA InitEstablishes == TailInit => TailInv
<1> SUFFICES ASSUME TailInit PROVE TailInv
  OBVIOUS
<1>1. /\ sent \in Nat /\ base = 0 /\ truncs = 0 /\ pc = "idle" /\ tailPhase = "idle"
      /\ pos = 0 /\ buf = <<>> /\ eof = 0 /\ Place = offset
      /\ rows = [e \in NL |-> IF e <= offset THEN 1 ELSE 0]
  BY TailAssumption DEF TailInit, Place
<1>2. /\ NL \subseteq Nat /\ offset \in Nat /\ offset <= sent
      /\ offset = 0 \/ offset \in NL
  <2>1. NL \subseteq Nat
    BY TailAssumption
  <2>2. CASE offset = 0
    BY <1>1, <2>1, <2>2
  <2>3. CASE offset \in NL /\ offset <= sent
    BY <1>1, <2>1, <2>3
  <2> QED
    BY <2>2, <2>3, FirstOffset
<1>3. Shape
  BY <1>1, <1>2 DEF Shape, Pcs
<1>4. RowsBehind /\ BufferAhead
  BY <1>1, <1>2 DEF RowsBehind, BufferAhead
<1>5. PlaceIsLine
  BY <1>1, <1>2 DEF PlaceIsLine
<1>6. PlaceCovers
  BY <1>1, <1>2 DEF PlaceCovers, RowLines
<1> QED
  BY <1>3, <1>4, <1>5, <1>6 DEF TailInv

\* Every step keeps the invariant.
LEMMA StepPreserves == TailInv /\ [TailNext]_tailVars => TailInv'
<1> SUFFICES ASSUME TailInv, [TailNext]_tailVars PROVE TailInv'
  OBVIOUS
<1>1. Shape
  BY DEF TailInv
<1>2. CASE Handle \/ Coalesce \/ Stop \/ DebounceExits \/ UNCHANGED tailVars
  <2>1. /\ UNCHANGED <<sent, base, truncs, rotator, pos, buf, eof, rows, offset, pc>>
        /\ \/ tailPhase' = tailPhase
           \/ tailPhase = "idle" /\ tailPhase' = "exited"
    BY <1>2 DEF Handle, Coalesce, Stop, DebounceExits, D!Emit, D!Coalesce, D!Close, D!Exit,
       fileVars, envVars, trigVars, runVars, tailVars
  <2>2. Place' = Place
    BY <2>1 DEF Place
  <2>3. pc' \in Pcs /\ (tailPhase' = "busy" <=> pc' # "idle")
    BY <1>1, <2>1 DEF Shape
  <2> QED
    BY <2>1, <2>2, <2>3, PlaceStays
<1>3. CASE BeginTail
  <2>1. /\ UNCHANGED <<sent, base, truncs, rotator, pos, buf, eof, rows, offset>>
        /\ tailPhase = "idle" /\ tailPhase' = "busy" /\ pc' = "open"
    BY <1>3 DEF BeginTail, D!Begin, fileVars, envVars, runVars
  <2>2. pc = "idle" /\ Place' = Place
    BY <1>1, <2>1 DEF Shape, Place
  <2> QED
    BY <2>1, <2>2, PlaceStays DEF Pcs
<1>4. CASE OpenFails \/ RotateFails
  <2>1. /\ UNCHANGED <<sent, base, truncs, rotator, pos, buf, eof, rows, offset>>
        /\ pc \in {"open", "rotate"} /\ pc' = "idle" /\ tailPhase' = "idle"
    BY <1>4 DEF OpenFails, RotateFails, Failure, EndTail, D!End, fileVars, runVars
  <2>2. Place' = Place
    BY <2>1 DEF Place
  <2> QED
    BY <2>1, <2>2, PlaceStays DEF Pcs
<1>5. CASE ReadFails
  <2>1. /\ UNCHANGED <<sent, base, truncs, rotator, pos, buf, eof, rows, offset, tailPhase>>
        /\ pc = "read" /\ pc' = "finish"
    BY <1>5 DEF ReadFails, Failure, fileVars, trigVars, runVars
  <2>2. Place' = Place /\ tailPhase' = "busy"
    BY <1>1, <2>1 DEF Place, Shape
  <2> QED
    BY <2>1, <2>2, PlaceStays DEF Pcs
<1>6. CASE Finish
  <2>1. /\ UNCHANGED <<sent, base, truncs, rotator, pos, buf, eof, rows>>
        /\ pc = "finish" /\ offset' = pos
        /\ \/ pc' = "rotate" /\ rotator /\ tailPhase' = tailPhase
           \/ pc' = "idle" /\ tailPhase' = "idle"
    BY <1>6 DEF Finish, CheckSize, EndTail, D!End, fileVars, envVars, trigVars, runVars
  <2>2. Place = pos /\ Place' = pos /\ tailPhase = "busy"
    BY <1>1, <2>1 DEF Place, Shape
  <2> QED
    BY <2>1, <2>2, PlaceStays DEF Pcs
<1> QED
  BY <1>2, <1>3, <1>4, <1>5, <1>6, FillKeeps, TakeKeeps, OpenKeeps, EndOfFileKeeps,
     CutKeeps, FileKeeps
     DEF TailNext, TailStep, TailError

-----------------------------------------------------------------------------
(***************************************************************************)
(* Theorems.                                                               *)
(***************************************************************************)

\* The invariant holds in every state.
THEOREM TailInvariant == TailSpec => []TailInv
<1> QED
  BY InitEstablishes, StepPreserves, PTL DEF TailSpec

\* No line becomes two rows, however runs, truncations, rotations, failures and
\* resets of the offset fall.
THEOREM RowsOnce == TailSpec => []AtMostOnce
<1>1. TailInv => AtMostOnce
  BY DEF TailInv, Shape, AtMostOnce, RowLines
<1> QED
  BY <1>1, TailInvariant, PTL

\* The kept offset passes over no line of the file that is not a row.
THEOREM OffsetNeverAhead == TailSpec => []OffsetCovers
<1>1. TailInv => OffsetCovers
  <2> SUFFICES ASSUME TailInv, truncs = 0, pc # "reset", NEW e \in RowLines,
                      base < LineStart(e), e <= base + offset
               PROVE  rows[e] = 1
    BY DEF OffsetCovers
  <2>1. base \in Nat /\ offset \in Nat /\ Place \in Nat /\ offset <= Place
    BY DEF TailInv, Shape, PlaceIsLine, Place
  <2>2. e \in Nat
    BY TailAssumption DEF RowLines
  <2>3. e <= base + Place
    BY <2>1, <2>2
  <2> QED
    BY <2>3 DEF TailInv, PlaceCovers
<1> QED
  BY <1>1, TailInvariant, PTL

\* A first read delivers the last lines of the log, as many as asked for,
\* wherever the blocks of the backward scan end.
THEOREM FirstReadIsLimited == TailSpec => []FirstReadLimited
<1>1. TailInv => FirstReadLimited
  <2> SUFFICES ASSUME TailInv, NEW lines \in 1..Cardinality(NL)
               PROVE  LET o == getFileOffset(lines)
                          after == Cardinality(NewlinesIn(o, FileSize))
                      IN \/ o = 0 /\ after <= lines
                         \/ o \in NewlinesIn(0, FileSize) /\ after = lines
    BY DEF FirstReadLimited
  <2>1. sent \in Nat /\ base \in Nat /\ base <= sent
    BY DEF TailInv, Shape
  <2>2. lines \in Nat \ {0}
    OBVIOUS
  <2> QED
    BY <2>1, <2>2, FirstRead
<1> QED
  BY <1>1, TailInvariant, PTL

\* Only the taking of a line writes a row, and only an append, a truncation and
\* a rotation change the file.
LEMMA WhoWrites ==
  ASSUME [TailNext]_tailVars
  PROVE  /\ TakeLine \/ rows' = rows
         /\ ExternalTruncate \/ Rotate \/ base' = base
<1>1. CASE LogWrite \/ Handle \/ Coalesce \/ Stop \/ DebounceExits \/ BeginTail
           \/ ExternalTruncate \/ UNCHANGED tailVars
  BY <1>1 DEF LogWrite, Handle, Coalesce, Stop, DebounceExits, BeginTail, ExternalTruncate,
     fileVars, tailVars
<1>2. CASE OpenEmpty \/ Open \/ Fill \/ EndOfFile \/ Finish \/ Rotate \/ Reset
  BY <1>2 DEF OpenEmpty, Open, Fill, EndOfFile, Finish, Rotate, Reset, fileVars
<1>3. CASE TakeLine
  BY <1>3 DEF TakeLine, fileVars
<1>4. CASE TailError
  BY <1>4 DEF TailError, OpenFails, ReadFails, RotateFails, fileVars
<1> QED
  BY <1>1, <1>2, <1>3, <1>4 DEF TailNext, TailStep

\* Rows are written in the order the lines were logged.
THEOREM RowsInOrder == TailSpec => InOrder
<1>1. ASSUME TailInv, [TailNext]_tailVars, NEW e \in RowLines, NEW f \in RowLines,
             truncs = 0, rows'[e] > rows[e], f < e
      PROVE  rows[f] > 0 \/ base >= LineStart(f)
  <2>1. /\ rows \in [NL -> 0..1] /\ base \in Nat /\ e \in NL /\ f \in NL
    BY <1>1 DEF TailInv, Shape, RowLines
  <2>2. TakeLine
    <3>1. rows[e] \in 0..1
      BY <2>1
    <3> QED
      BY <1>1, <3>1, WhoWrites
  <2>3. PICK i \in 1..Len(buf) :
          /\ pc = "read" /\ buf[i] \in NL /\ \A j \in 1..(i - 1) : buf[j] \notin NL
          /\ rows' \in {rows, [rows EXCEPT ![buf[i]] = 1]}
    BY <1>1, <2>2, LineTaken
  <2>4. e = buf[i]
    <3>1. rows[e] \in 0..1
      BY <2>1
    <3> QED
      BY <1>1, <2>1, <2>3, <3>1
  <2>5. f <= base + pos
    BY <1>1, <2>1, <2>3, <2>4, NothingBetween
  <2>6. base < LineStart(f) => rows[f] = 1
    BY <1>1, <2>3, <2>5 DEF TailInv, PlaceCovers, Place
  <2>7. LineStart(f) \in 1..f /\ f \in Nat
    BY <2>1, LinesStart, TailAssumption
  <2> QED
    BY <2>1, <2>6, <2>7
<1>2. TailInv /\ [TailNext]_tailVars =>
        \A e, f \in RowLines :
          truncs = 0 /\ rows'[e] > rows[e] /\ f < e
            => rows[f] > 0 \/ base >= LineStart(f)
  BY <1>1
<1> QED
  BY <1>2, TailInvariant, PTL DEF TailSpec, InOrder

\* The worker's rotation discards only lines that ended after the run had met the
\* end of the file, and lines whose start it discarded before.
THEOREM RotationKeepsSeen == TailSpec => RotateKeepsSeen
<1>1. ASSUME TailInv, [TailNext]_tailVars, truncs' = 0, base' # base,
             NEW e \in RowLines, base < LineStart(e), e <= eof
      PROVE  rows[e] = 1
  <2>1. Rotate
    <3>1. truncs \in Nat
      BY <1>1 DEF TailInv, Shape
    <3>2. ~ExternalTruncate
      BY <1>1, <3>1 DEF ExternalTruncate
    <3> QED
      BY <1>1, <3>2, WhoWrites
  <2>2. pc = "rotate" /\ truncs = 0
    BY <1>1, <2>1 DEF Rotate
  <2>3. e \in NL /\ e \in Nat /\ base \in Nat /\ LineStart(e) \in 1..e
    BY <1>1, LinesStart, TailAssumption DEF TailInv, Shape, RowLines
  <2>4. base < e
    BY <1>1, <2>3
  <2> QED
    BY <1>1, <2>2, <2>3, <2>4 DEF TailInv, PlaceCovers
<1>2. TailInv /\ [TailNext]_tailVars =>
        (truncs' = 0 /\ base' # base =>
           \A e \in RowLines : base < LineStart(e) /\ e <= eof => rows[e] = 1)
  BY <1>1
<1> QED
  BY <1>2, TailInvariant, PTL DEF TailSpec, RotateKeepsSeen

-----------------------------------------------------------------------------
(***************************************************************************)
(* The worker of a file that only grows is a LineReader.                   *)
(***************************************************************************)

\* How many lines end up to a position.
LEMMA LinesCounted ==
  /\ \A n : LinesIn(n) \in Nat /\ LinesIn(n) <= Cardinality(NL)
  /\ \A m, n \in Nat : m <= n => LinesIn(m) <= LinesIn(n)
  /\ \A m \in Nat, e \in NL :
       m < e /\ (\A f \in NL : f < e => f <= m) => LinesIn(e) = LinesIn(m) + 1
<1> DEFINE Upto(n) == {e \in NL : e <= n}
<1>1. IsFiniteSet(NL)
  <2>1. IsFiniteSet(1..StreamLen)
    BY FS_Interval, TailAssumption
  <2>2. NL \in SUBSET (1..StreamLen)
    BY TailAssumption
  <2> QED
    BY <2>1, <2>2, FS_Subset
<1>2. \A n : Upto(n) \in SUBSET NL
  OBVIOUS
<1>3. \A e \in NL : e \in Nat
  BY TailAssumption
<1>4. \A m, n \in Nat : m <= n => Upto(m) \in SUBSET Upto(n)
  BY <1>3
<1>5. ASSUME NEW m \in Nat, NEW e \in NL, m < e, \A f \in NL : f < e => f <= m
      PROVE  Upto(e) = Upto(m) \cup {e} /\ e \notin Upto(m)
  <2>1. e \in Nat
    BY <1>3
  <2>2. \A f : f \in Upto(e) => f \in Upto(m) \cup {e}
    BY <1>3, <1>5, <2>1
  <2>3. \A f : f \in Upto(m) \cup {e} => f \in Upto(e)
    BY <1>3, <1>5, <2>1
  <2>4. e \notin Upto(m)
    BY <1>5, <2>1
  <2> HIDE DEF Upto
  <2> QED
    BY <2>2, <2>3, <2>4
<1>6. \A n : LinesIn(n) = Cardinality(Upto(n))
  BY DEF LinesIn
<1> HIDE DEF Upto
<1>7. \A n : /\ IsFiniteSet(Upto(n)) /\ Cardinality(Upto(n)) \in Nat
             /\ Cardinality(Upto(n)) <= Cardinality(NL)
  BY <1>1, <1>2, FS_Subset, FS_CardinalityType
<1>8. \A m, n \in Nat : m <= n => Cardinality(Upto(m)) <= Cardinality(Upto(n))
  BY <1>4, <1>7, FS_Subset
<1>9. ASSUME NEW m \in Nat, NEW e \in NL, m < e, \A f \in NL : f < e => f <= m
      PROVE  Cardinality(Upto(e)) = Cardinality(Upto(m)) + 1
  <2>1. Upto(e) = Upto(m) \cup {e} /\ e \notin Upto(m)
    BY <1>5, <1>9
  <2> QED
    BY <1>7, <2>1, FS_AddElement
<1> QED
  BY <1>6, <1>7, <1>8, <1>9

\* The state of the run that LineReader's flag stands for.
Reading == pc \notin {"idle", "rotate", "reset"}

\* A step of the LineReader, or none, told by the numbers of lines.
LEMMA ReaderStep ==
  ASSUME NEW logged, NEW kept, NEW taken,
         logged = LinesIn(sent'), kept = LinesIn(offset'), taken = LinesIn(Place'),
         \/ /\ logged \in LinesIn(sent)..Cardinality(NL)
            /\ kept = LinesIn(offset) /\ taken = LinesIn(Place) /\ Reading' = Reading
         \/ /\ logged = LinesIn(sent) /\ kept = LinesIn(offset) /\ taken = LinesIn(Place)
            /\ ~Reading /\ Reading'
         \/ /\ logged = LinesIn(sent) /\ kept = LinesIn(offset)
            /\ taken = LinesIn(Place) + 1 /\ LinesIn(Place) < LinesIn(sent)
            /\ Reading /\ Reading'
         \/ /\ logged = LinesIn(sent) /\ kept = LinesIn(Place) /\ taken = LinesIn(Place)
            /\ Reading /\ ~Reading'
  PROVE  [R!ReadNext]_(R!readVars)
<1>1. /\ LinesIn(sent)' = logged /\ LinesIn(offset)' = kept
      /\ (IF pc \in {"read", "finish", "panic"} THEN LinesIn(pos) ELSE LinesIn(offset))' = taken
  BY DEF LinesIn, Place
<1>2. (IF pc \in {"read", "finish", "panic"} THEN LinesIn(pos) ELSE LinesIn(offset))
        = LinesIn(Place)
  BY DEF Place
<1>3. LinesIn(sent) \in Nat
  BY LinesCounted
<1>4. logged \in LinesIn(sent)..Cardinality(NL) =>
        logged = LinesIn(sent) \/ logged \in (LinesIn(sent) + 1)..Cardinality(NL)
  BY <1>3
<1> QED
  BY <1>1, <1>2, <1>4
     DEF R!ReadNext, R!Log, R!Begin, R!Take, R!Finish, R!readVars, Reading

\* While the file only grows, each step of the worker is a step of the LineReader.
LEMMA StepsOfReader ==
  ASSUME TailInv, TailInv', [TailNext]_tailVars, OnlyGrows
  PROVE  [R!ReadNext]_(R!readVars)
<1>1. /\ Shape /\ PlaceIsLine /\ sent \in Nat /\ base \in Nat /\ truncs \in Nat
      /\ offset \in Nat /\ pos \in Nat /\ sent' \in Nat /\ NL \subseteq Nat
      /\ ~rotator /\ truncs' = 0
  BY TailAssumption DEF TailInv, Shape, OnlyGrows
<1>2. truncs = 0 /\ ~ExternalTruncate
  <2>1. ~ExternalTruncate
    BY <1>1 DEF ExternalTruncate
  <2>2. truncs' = truncs
    BY <2>1 DEF TailNext, TailStep, TailError, LogWrite, Handle, Coalesce, Stop, DebounceExits,
       BeginTail, OpenEmpty, Open, Fill, TakeLine, EndOfFile, Finish, Rotate, Reset, OpenFails,
       ReadFails, RotateFails, fileVars, tailVars
  <2> QED
    BY <1>1, <2>1, <2>2
<1>3. /\ base = 0 /\ pc \notin {"rotate", "reset"}
      /\ Place \in Nat /\ Place <= sent /\ offset <= Place
  <2>1. base = 0 /\ pc \notin {"rotate", "reset"}
    BY <1>1, <1>2 DEF PlaceIsLine
  <2>2. Place \in Nat /\ base + Place <= sent /\ offset <= Place
    BY <1>1, <1>2, <2>1 DEF PlaceIsLine, Place
  <2> QED
    BY <1>1, <2>1, <2>2
<1>4. /\ LinesIn(sent) \in LinesIn(sent)..Cardinality(NL)
      /\ LinesIn(sent') <= Cardinality(NL) /\ LinesIn(sent') \in Nat
  BY LinesCounted
<1>5. CASE LogWrite
  <2>1. sent' >= sent /\ UNCHANGED <<offset, pc, pos>>
    BY <1>1, <1>5 DEF LogWrite, runVars
  <2>2. LinesIn(sent') \in LinesIn(sent)..Cardinality(NL)
    BY <1>1, <1>4, <2>1, LinesCounted
  <2>3. Place' = Place /\ Reading' = Reading
    BY <2>1 DEF Place, Reading
  <2> QED
    BY <2>1, <2>2, <2>3, ReaderStep
<1>6. CASE Handle \/ Coalesce \/ Stop \/ DebounceExits \/ Fill \/ UNCHANGED tailVars
  <2>1. UNCHANGED <<sent, offset, pc, pos>>
    BY <1>6 DEF Handle, Coalesce, Stop, DebounceExits, Fill, fileVars, runVars, tailVars
  <2>2. Place' = Place /\ Reading' = Reading
    BY <2>1 DEF Place, Reading
  <2> QED
    BY <1>4, <2>1, <2>2, ReaderStep
<1>7. CASE Open \/ EndOfFile \/ ReadFails
  <2>1. /\ UNCHANGED <<sent, offset>> /\ Reading /\ Reading'
        /\ \/ pc = "open" /\ pc' = "read" /\ pos' = IF offset > sent - base THEN 0 ELSE offset
           \/ pc = "read" /\ pc' = "finish" /\ pos' = pos
    BY <1>7 DEF Open, EndOfFile, ReadFails, FileSize, fileVars, runVars, Reading
  <2>2. Place' = Place
    BY <1>1, <1>3, <2>1 DEF Place
  <2> QED
    BY <1>4, <2>1, <2>2, ReaderStep
<1>8. CASE BeginTail
  <2>1. /\ UNCHANGED <<sent, offset, pos>>
        /\ tailPhase = "idle" /\ pc' = "open"
    BY <1>8 DEF BeginTail, D!Begin, fileVars, runVars
  <2>2. pc = "idle"
    BY <1>1, <2>1 DEF Shape
  <2>3. Place' = Place /\ ~Reading /\ Reading'
    BY <2>1, <2>2 DEF Place, Reading
  <2> QED
    BY <2>1, <2>3, ReaderStep
<1>9. CASE TakeLine
  <2>1. PICK i \in 1..Len(buf) :
          /\ pc = "read" /\ buf[i] \in NL /\ \A j \in 1..(i - 1) : buf[j] \notin NL
          /\ pc' \in {"read", "panic"} /\ pos' = pos + i
          /\ UNCHANGED <<sent, offset>>
    BY <1>9, LineTaken
  <2>2. /\ Place = pos /\ Place' = pos + i /\ Reading /\ Reading'
        /\ i \in Nat /\ i > 0
    BY <1>1, <2>1 DEF Place, Reading, Shape
  <2>3. buf[i] = base + pos + i /\ \A f \in NL : f < buf[i] => f <= base + pos
    BY <1>2, <2>1, NothingBetween
  <2>4. pos + i \in NL /\ \A f \in NL : f < pos + i => f <= pos
    BY <1>1, <1>3, <2>1, <2>2, <2>3
  <2>5. pos + i <= sent
    <3>1. buf[i] <= sent
      BY <2>1 DEF TailInv, BufferAhead
    <3> QED
      BY <1>1, <1>3, <2>2, <2>3, <3>1
  <2>6. /\ LinesIn(pos + i) = LinesIn(pos) + 1 /\ LinesIn(pos) \in Nat
        /\ LinesIn(pos + i) <= LinesIn(sent)
    <3>1. pos \in Nat /\ pos + i \in Nat /\ pos < pos + i
      BY <1>1, <2>2
    <3>2. LinesIn(pos + i) = LinesIn(pos) + 1
      BY <2>4, <3>1, LinesCounted
    <3>3. LinesIn(pos + i) <= LinesIn(sent)
      BY <1>1, <2>5, <3>1, LinesCounted
    <3> QED
      BY <3>2, <3>3, LinesCounted
  <2>7. LinesIn(pos) < LinesIn(sent)
    BY <1>4, <2>6, LinesCounted
  <2> QED
    BY <2>1, <2>2, <2>6, <2>7, ReaderStep
<1>10. CASE OpenFails \/ OpenEmpty \/ Finish
  <2>1. sent' = sent /\ pc' = "idle" /\ Reading /\ ~Reading' /\ offset' = Place
    <3>1. CASE OpenFails
      BY <3>1 DEF OpenFails, EndTail, fileVars, Reading, Place
    <3>2. CASE OpenEmpty
      <4>1. sent' = sent /\ pc = "open" /\ pc' = "idle" /\ offset' = 0 /\ sent - base = 0
        BY <3>2 DEF OpenEmpty, EndTail, FileSize, fileVars
      <4> QED
        BY <1>1, <1>3, <4>1 DEF Reading, Place
    <3>3. CASE Finish
      BY <1>1, <3>3 DEF Finish, CheckSize, EndTail, fileVars, Reading, Place
    <3> QED
      BY <1>10, <3>1, <3>2, <3>3
  <2>2. Place' = Place
    BY <2>1 DEF Place
  <2> QED
    BY <2>1, <2>2, ReaderStep
<1>11. ~(Rotate \/ Reset \/ RotateFails)
  BY <1>3 DEF Rotate, Reset, RotateFails
<1> QED
  BY <1>2, <1>5, <1>6, <1>7, <1>8, <1>9, <1>10, <1>11 DEF TailNext, TailStep, TailError

\* A worker whose file only grows is a LineReader: bytes, buffers and half lines
\* do not show.
THEOREM ReadsLineByLine == TailSpec => ImplementsLineReader
<1>1. TailInit => R!ReadInit
  <2> SUFFICES ASSUME TailInit PROVE R!ReadInit
    OBVIOUS
  <2>1. pc = "idle" /\ sent \in Nat
    BY TailAssumption DEF TailInit
  <2>2. offset \in Nat /\ offset <= sent
    <3>1. CASE offset = 0
      BY <2>1, <3>1
    <3>2. CASE offset \in NL /\ offset <= sent
      BY <3>2, TailAssumption
    <3> QED
      BY <3>1, <3>2, FirstOffset
  <2>3. /\ LinesIn(sent) \in 0..Cardinality(NL)
        /\ LinesIn(offset) \in 0..LinesIn(sent)
    <3>1. IsFiniteSet(NL)
      <4>1. IsFiniteSet(1..StreamLen) /\ NL \in SUBSET (1..StreamLen)
        BY FS_Interval, TailAssumption
      <4> QED
        BY <4>1, FS_Subset
    <3>2. Cardinality(NL) \in Nat
      BY <3>1, FS_CardinalityType
    <3> QED
      BY <2>1, <2>2, <3>2, LinesCounted
  <2> QED
    BY <2>1, <2>3 DEF R!ReadInit
<1>2. TailInv /\ TailInv' /\ [TailNext]_tailVars =>
        (OnlyGrows => [R!ReadNext]_(R!readVars))
  BY StepsOfReader
<1> QED
  BY <1>1, <1>2, TailInvariant, PTL DEF TailSpec, ImplementsLineReader
=============================================================================
