------------------------- MODULE RouteGroupsProofs -------------------------
(***************************************************************************)
(* For any lists of middleware and any number of groups and routes: no     *)
(* append disturbs the cells that a group of the first two levels views,   *)
(* so each of their routes runs its own middleware.                        *)
(***************************************************************************)
EXTENDS RouteGroups, SequenceTheorems, TLAPS

\* A cell holds a middleware or nothing.
Cell == STRING \union {NoCell}

LEMMA GivenCells == Global \in Seq(Cell) /\ Lists \subseteq Seq(Cell)
<1>1. Seq(STRING) \subseteq Seq(Cell)
  BY SeqMonotonic DEF Cell
<1> QED
  BY <1>1, GlobalAssumption, ListsAssumption

\* The slice views these cells.
Holds(a, s, cells) ==
  Len(cells) = s.len /\ \A i \in 1 .. s.len : a[s.array][i] = cells[i]

Fits(a, s) == s.array \in 1 .. Len(a) /\ s.len \in 0 .. Len(a[s.array])

GroupOK(a, g) ==
  /\ Fits(a, g.slice) /\ g.slice.array # 1
  /\ g.depth # 0
  /\ g.depth = 1 => g.slice.len = Len(a[g.slice.array])
  /\ g.depth <= 2 => Holds(a, g.slice, g.given)

\* A slice that shares the array of a group of the first two levels does not
\* end before it: what is appended to it is written behind the group's cells.
EndsBehind(s, g) ==
  g.depth <= 2 /\ g.slice.array = s.array => g.slice.len <= s.len

Arrays == Seq(Seq(Cell))
Groups == [slice : [array : Nat, len : Nat], depth : Nat, given : Seq(Cell)]
Routes == [chain : Seq(Cell), depth : Nat, given : Seq(Cell)]

IInv ==
  /\ arrays \in Arrays
  /\ Fits(arrays, GlobalSlice) /\ Holds(arrays, GlobalSlice, Global)
  /\ groups \in Seq(Groups) /\ routes \in Seq(Routes)
  /\ \A g \in DOMAIN groups : GroupOK(arrays, groups[g])
  /\ \A g, h \in DOMAIN groups : EndsBehind(groups[h].slice, groups[g])
  /\ RoutesRunTheirOwn
-----------------------------------------------------------------------------
(* Slices.                                                                 *)
LEMMA CapIsEnough ==
  ASSUME NEW old \in Nat, NEW need \in Nat
  PROVE  GrownCap(old, need) \in Nat /\ GrownCap(old, need) >= need
<1> DEFINE wanted == IF need > 2 * old THEN need ELSE 2 * old
           Fitting == {c \in SizeClasses : c >= wanted}
           Least(c) == c \in Fitting /\ \A d \in Fitting : c <= d
<1>1. wanted \in Nat /\ wanted >= need
  OBVIOUS
<1>2. GrownCap(old, need) =
        IF Fitting = {} THEN wanted ELSE CHOOSE c \in Fitting : \A d \in Fitting : c <= d
  BY DEF GrownCap
<1> HIDE DEF wanted
<1>3. CASE Fitting = {}
  BY <1>1, <1>2, <1>3
<1>4. CASE Fitting # {}
  <2>1. \A c \in Fitting : c \in Nat /\ c >= wanted
    BY DEF SizeClasses
  <2>2. wanted <= 16
    BY <1>1, <1>4 DEF SizeClasses
  <2>3. \E c : Least(c)
    <3>1. wanted = 0 => Least(0)
      BY DEF SizeClasses
    <3>2. wanted = 1 => Least(1)
      BY DEF SizeClasses
    <3>3. wanted = 2 => Least(2)
      BY DEF SizeClasses
    <3>4. wanted = 3 => Least(3)
      BY DEF SizeClasses
    <3>5. wanted = 4 => Least(4)
      BY DEF SizeClasses
    <3>6. wanted \in {5, 6} => Least(6)
      BY DEF SizeClasses
    <3>7. wanted \in {7, 8} => Least(8)
      BY DEF SizeClasses
    <3>8. wanted \in {9, 10} => Least(10)
      BY DEF SizeClasses
    <3>9. wanted \in {11, 12} => Least(12)
      BY DEF SizeClasses
    <3>10. wanted \in {13, 14} => Least(14)
      BY DEF SizeClasses
    <3>11. wanted \in {15, 16} => Least(16)
      BY DEF SizeClasses
    <3>12. wanted \in 0 .. 16
      BY <1>1, <2>2
    <3> HIDE DEF Least
    <3> QED
      BY <3>1, <3>2, <3>3, <3>4, <3>5, <3>6, <3>7, <3>8, <3>9, <3>10, <3>11, <3>12
  <2>4. GrownCap(old, need) = CHOOSE c \in Fitting : \A d \in Fitting : c <= d
    BY <1>2, <1>4
  <2> HIDE DEF Fitting
  <2>5. GrownCap(old, need) \in Fitting
    BY <2>3, <2>4
  <2> QED
    BY <1>1, <2>1, <2>5
<1> QED
  BY <1>3, <1>4

LEMMA CellsAre ==
  ASSUME NEW a \in Arrays, NEW s, Fits(a, s)
  PROVE  Cells(a, s) \in Seq(Cell) /\ Holds(a, s, Cells(a, s))
<1>1. a[s.array] \in Seq(Cell) /\ s.len \in Nat /\ s.len <= Len(a[s.array])
  BY LenProperties DEF Arrays, Fits
<1>2. \A i \in 1 .. s.len : a[s.array][i] \in Cell
  BY <1>1, ElementOfSeq
<1>3. /\ Cells(a, s) \in Seq(Cell) /\ Len(Cells(a, s)) = IF 1 <= s.len THEN s.len - 1 + 1 ELSE 0
      /\ \A i \in 1 .. s.len - 1 + 1 : Cells(a, s)[i] = a[s.array][1 + i - 1]
  BY <1>1, <1>2, SubSeqProperties DEF Cells
<1>4. Len(Cells(a, s)) = s.len /\ \A i \in 1 .. s.len : Cells(a, s)[i] = a[s.array][i]
  BY <1>1, <1>3
<1> QED
  BY <1>3, <1>4 DEF Holds

LEMMA FilledIs ==
  ASSUME NEW cells \in Seq(Cell), NEW cap \in Nat, Len(cells) <= cap
  PROVE  /\ Filled(cells, cap) \in Seq(Cell) /\ Len(Filled(cells, cap)) = cap
         /\ \A i \in 1 .. Len(cells) : Filled(cells, cap)[i] = cells[i]
<1> DEFINE Entry(i) == IF i <= Len(cells) THEN cells[i] ELSE NoCell
<1>0. Len(cells) \in Nat
  BY LenProperties
<1>1. Filled(cells, cap) \in [1 .. cap -> Cell]
  <2>1. ASSUME NEW i \in 1 .. cap PROVE Entry(i) \in Cell
    <3>1. CASE i <= Len(cells)
      <4>1. i \in 1 .. Len(cells)
        BY <1>0, <3>1
      <4>2. cells[i] \in Cell
        BY <4>1, ElementOfSeq
      <4> QED
        BY <3>1, <4>2
    <3>2. CASE ~ (i <= Len(cells))
      <4>1. Entry(i) = NoCell
        BY <3>2
      <4> QED
        BY <4>1 DEF Cell
    <3> QED
      BY <3>1, <3>2
  <2>2. Filled(cells, cap) = [i \in 1 .. cap |-> Entry(i)]
    BY DEF Filled
  <2> HIDE DEF Entry
  <2> QED
    BY <2>1, <2>2
<1>2. Filled(cells, cap) \in Seq(Cell) /\ Len(Filled(cells, cap)) = cap
  BY <1>1
<1>3. \A i \in 1 .. Len(cells) : i \in 1 .. cap /\ i <= Len(cells)
  BY <1>0
<1> QED
  BY <1>2, <1>3 DEF Filled

\* b has the cells of a, but for those behind the end of s.
Extends(b, a, s) ==
  /\ b \in Arrays /\ Len(b) >= Len(a)
  /\ \A i \in 1 .. Len(a) :
       /\ Len(b[i]) = Len(a[i])
       /\ \A j \in 1 .. Len(a[i]) : b[i][j] = a[i][j] \/ (i = s.array /\ j > s.len)

\* append writes behind its slice's end, or makes an array of its own.
LEMMA AppendIs ==
  ASSUME NEW a \in Arrays, NEW s \in [array : Nat, len : Nat], Fits(a, s), NEW ms \in Seq(Cell)
  PROVE  LET r == Append2(a, s, ms) IN
         /\ Extends(r.arrays, a, s) /\ Fits(r.arrays, r.slice)
         /\ r.slice \in [array : Nat, len : Nat] /\ r.slice.len = s.len + Len(ms)
         /\ Holds(r.arrays, r.slice, Cells(a, s) \o ms)
         /\ \/ r.slice.array = s.array /\ s.len + Len(ms) <= Len(a[s.array])
            \/ r.slice.array = Len(a) + 1 /\ s.len + Len(ms) > Len(a[s.array])
<1> DEFINE r == Append2(a, s, ms)
           old == a[s.array]
           len == s.len + Len(ms)
           cap == Len(old)
           both == Cells(a, s) \o ms
<1>1. /\ old \in Seq(Cell) /\ cap \in Nat /\ len \in Nat /\ s.len \in Nat /\ Len(ms) \in Nat
      /\ s.array \in 1 .. Len(a) /\ s.len <= cap /\ Len(a) \in Nat
  BY LenProperties DEF Arrays, Fits
<1>2. both \in Seq(Cell) /\ Len(both) = len
      /\ \A i \in 1 .. len : both[i] = IF i <= s.len THEN old[i] ELSE ms[i - s.len]
  <2>1. Cells(a, s) \in Seq(Cell) /\ Len(Cells(a, s)) = s.len
        /\ \A i \in 1 .. s.len : Cells(a, s)[i] = old[i]
    BY CellsAre DEF Holds
  <2> DEFINE c == Cells(a, s)
  <2> HIDE DEF c
  <2>2. c \in Seq(Cell) /\ Len(c) = s.len
    BY <2>1 DEF c
  <2>3. /\ c \o ms \in Seq(Cell) /\ Len(c \o ms) = Len(c) + Len(ms)
        /\ \A i \in 1 .. Len(c) + Len(ms) :
             (c \o ms)[i] = IF i <= Len(c) THEN c[i] ELSE ms[i - Len(c)]
    BY <2>2, ConcatProperties
  <2>4. /\ c \o ms \in Seq(Cell) /\ Len(c \o ms) = len
        /\ \A i \in 1 .. len : (c \o ms)[i] = IF i <= s.len THEN c[i] ELSE ms[i - s.len]
    BY <2>2, <2>3
  <2>5. \A i \in 1 .. len : i <= s.len => c[i] = old[i]
    BY <1>1, <2>1 DEF c
  <2>6. both = c \o ms
    BY DEF c
  <2> HIDE DEF both
  <2> QED
    BY <2>4, <2>5, <2>6
<1>3. \A i \in 1 .. Len(a) : a[i] \in Seq(Cell) /\ Len(a[i]) \in Nat
  BY LenProperties DEF Arrays
<1> HIDE DEF both
<1>4. CASE len <= cap
  <2> DEFINE new == [i \in 1 .. cap |-> IF i > s.len /\ i <= len THEN ms[i - s.len] ELSE old[i]]
  <2>1. r = [arrays |-> [a EXCEPT ![s.array] = new], slice |-> Slice(s.array, len)]
    BY <1>4 DEF Append2
  <2>2. \A i \in 1 .. cap : new[i] \in Cell
    BY <1>1, <1>4, ElementOfSeq
  <2>3. new \in [1 .. cap -> Cell]
    BY <2>2
  <2>4. new \in Seq(Cell) /\ Len(new) = cap
    BY <1>1, <2>3
  <2>5. \A i \in 1 .. len : new[i] = both[i]
    BY <1>1, <1>2, <1>4
  <2>6. \A i \in 1 .. cap : i <= s.len => new[i] = old[i]
    BY <1>1
  <2> HIDE DEF new
  <2> DEFINE b == [a EXCEPT ![s.array] = new]
  <2>7. /\ b \in Arrays /\ Len(b) = Len(a)
        /\ \A i \in 1 .. Len(a) : b[i] = IF i = s.array THEN new ELSE a[i]
    BY <1>1, <2>4, ExceptSeq DEF Arrays
  <2>8. r.arrays = b /\ r.slice = [array |-> s.array, len |-> len]
    BY <2>1 DEF Slice
  <2> HIDE DEF b, r
  <2>9. Extends(b, a, s)
    <3>1. ASSUME NEW i \in 1 .. Len(a)
          PROVE  /\ Len(b[i]) = Len(a[i])
                 /\ \A j \in 1 .. Len(a[i]) : b[i][j] = a[i][j] \/ (i = s.array /\ j > s.len)
      <4>1. CASE i # s.array
        BY <2>7, <4>1
      <4>2. CASE i = s.array
        <5>1. b[i] = new /\ a[i] = old
          BY <2>7, <4>2
        <5>2. \A j \in 1 .. cap : new[j] = old[j] \/ j > s.len
          BY <1>1, <2>6
        <5> QED
          BY <2>4, <4>2, <5>1, <5>2
      <4> QED
        BY <4>1, <4>2
    <3>2. b \in Arrays /\ Len(b) >= Len(a)
      BY <1>1, <2>7
    <3> QED
      BY <3>1, <3>2 DEF Extends
  <2>10. Fits(b, r.slice) /\ Holds(b, r.slice, both)
    BY <1>1, <1>2, <1>4, <2>4, <2>5, <2>7, <2>8 DEF Fits, Holds
  <2> QED
    BY <1>1, <1>4, <2>8, <2>9, <2>10 DEF both, r
<1>5. CASE ~ (len <= cap)
  <2> DEFINE new == Filled(both, GrownCap(cap, len))
             b == Append(a, new)
  <2>1. r = [arrays |-> b, slice |-> Slice(Len(a) + 1, len)]
    BY <1>5 DEF Append2, both
  <2>2. /\ new \in Seq(Cell) /\ Len(new) >= len /\ Len(new) \in Nat
        /\ \A i \in 1 .. len : new[i] = both[i]
    <3>1. GrownCap(cap, len) \in Nat /\ GrownCap(cap, len) >= len
      BY <1>1, CapIsEnough
    <3>2. /\ new \in Seq(Cell) /\ Len(new) = GrownCap(cap, len)
          /\ \A i \in 1 .. Len(both) : new[i] = both[i]
      BY <1>2, <3>1, FilledIs
    <3> QED
      BY <1>2, <3>1, <3>2
  <2> HIDE DEF new
  <2>3. /\ b \in Arrays /\ Len(b) = Len(a) + 1 /\ b[Len(a) + 1] = new
        /\ \A i \in 1 .. Len(a) : b[i] = a[i]
    BY <2>2, AppendProperties DEF Arrays
  <2>4. r.arrays = b /\ r.slice = [array |-> Len(a) + 1, len |-> len]
    BY <2>1 DEF Slice
  <2> HIDE DEF b, r
  <2>5. Extends(b, a, s)
    BY <1>1, <2>3 DEF Extends
  <2>6. Fits(b, r.slice) /\ Holds(b, r.slice, both)
    BY <1>1, <1>2, <2>2, <2>3, <2>4 DEF Fits, Holds
  <2> QED
    BY <1>1, <1>5, <2>4, <2>5, <2>6 DEF both, r
<1> QED
  BY <1>4, <1>5

LEMMA HeldIsCells ==
  ASSUME NEW a \in Arrays, NEW s, Fits(a, s), NEW c \in Seq(Cell), Holds(a, s, c)
  PROVE  Cells(a, s) = c
<1>1. Cells(a, s) \in Seq(Cell) /\ Holds(a, s, Cells(a, s))
  BY CellsAre
<1>2. Len(Cells(a, s)) = Len(c) /\ \A i \in 1 .. Len(Cells(a, s)) : Cells(a, s)[i] = c[i]
  BY <1>1 DEF Holds
<1> QED
  BY <1>1, <1>2, SeqEqual
-----------------------------------------------------------------------------
(* What stays as it is.                                                    *)
LEMMA GroupKept ==
  ASSUME NEW a \in Arrays, NEW b, NEW s, Extends(b, a, s), NEW g \in Groups, GroupOK(a, g),
         EndsBehind(s, g), s.len \in Nat
  PROVE  GroupOK(b, g)
<1> DEFINE x == g.slice
<1>1. x.array \in Nat /\ x.len \in Nat /\ g.depth \in Nat
  BY DEF Groups
<1>2. x.array \in 1 .. Len(a) /\ x.len \in 0 .. Len(a[x.array]) /\ Len(a) \in Nat
      /\ Len(a[x.array]) \in Nat
  BY LenProperties DEF GroupOK, Fits, Arrays
<1>3. Len(b[x.array]) = Len(a[x.array]) /\ Len(b) >= Len(a) /\ Len(b) \in Nat
  BY <1>2, LenProperties DEF Extends, Arrays
<1>4. Fits(b, x)
  BY <1>1, <1>2, <1>3 DEF Fits
<1>5. ASSUME g.depth <= 2 PROVE Holds(b, x, g.given)
  <2>1. Holds(a, x, g.given)
    BY <1>5 DEF GroupOK
  <2>2. ASSUME NEW i \in 1 .. x.len PROVE b[x.array][i] = a[x.array][i]
    <3>1. i \in 1 .. Len(a[x.array])
      BY <1>1, <1>2
    <3>2. b[x.array][i] = a[x.array][i] \/ (x.array = s.array /\ i > s.len)
      BY <1>2, <3>1 DEF Extends
    <3>3. x.array = s.array => x.len <= s.len
      BY <1>5 DEF EndsBehind
    <3> QED
      BY <1>1, <3>2, <3>3
  <2> QED
    BY <2>1, <2>2 DEF Holds
<1> QED
  BY <1>3, <1>4, <1>5 DEF GroupOK

GlobalOK(a) == Fits(a, GlobalSlice) /\ Holds(a, GlobalSlice, Global)

LEMMA GlobalSliceIs ==
  GlobalSlice \in [array : Nat, len : Nat] /\ GlobalSlice.array = 1 /\ GlobalSlice.len = Len(Global)
<1>1. Len(Global) \in Nat
  BY GivenCells, LenProperties
<1> QED
  BY <1>1 DEF GlobalSlice, Slice

LEMMA GlobalKept ==
  ASSUME NEW a \in Arrays, NEW b, NEW s, Extends(b, a, s), GlobalOK(a),
         s.array # 1 \/ s = GlobalSlice
  PROVE  GlobalOK(b)
<1> DEFINE x == GlobalSlice
<1>1. x.array = 1 /\ x.len \in Nat
  BY GlobalSliceIs
<1>2. 1 \in 1 .. Len(a) /\ x.len \in 0 .. Len(a[1]) /\ Len(a) \in Nat /\ Len(a[1]) \in Nat
  BY <1>1, LenProperties DEF GlobalOK, Fits, Arrays
<1>3. Len(b[1]) = Len(a[1]) /\ Len(b) >= Len(a) /\ Len(b) \in Nat
  BY <1>2, LenProperties DEF Extends, Arrays
<1>4. Fits(b, x)
  BY <1>1, <1>2, <1>3 DEF Fits
<1>5. ASSUME NEW i \in 1 .. x.len PROVE b[1][i] = a[1][i]
  <2>1. i \in 1 .. Len(a[1])
    BY <1>1, <1>2
  <2>2. b[1][i] = a[1][i] \/ (1 = s.array /\ i > s.len)
    BY <1>2, <2>1 DEF Extends
  <2> QED
    BY <1>1, <2>2
<1> QED
  BY <1>1, <1>4, <1>5 DEF GlobalOK, Holds
-----------------------------------------------------------------------------
(* The steps.                                                              *)
LEMMA InitHolds == GroupsInit => IInv
<1> SUFFICES ASSUME GroupsInit PROVE IInv
  OBVIOUS
<1> DEFINE cap == GrownCap(1, Len(Global))
           first == Filled(Global, cap)
<1>1. Global \in Seq(Cell) /\ Len(Global) \in Nat
  BY GivenCells, LenProperties
<1>2. cap \in Nat /\ cap >= Len(Global)
  BY <1>1, CapIsEnough
<1>3. /\ first \in Seq(Cell) /\ Len(first) = cap
      /\ \A i \in 1 .. Len(Global) : first[i] = Global[i]
  BY <1>1, <1>2, FilledIs
<1>4. arrays = <<first>> /\ groups = <<>> /\ routes = <<>>
  BY DEF GroupsInit
<1> HIDE DEF first, cap
<1>5. arrays \in Arrays /\ Len(arrays) = 1 /\ arrays[1] = first
  BY <1>3, <1>4 DEF Arrays
<1>6. GlobalOK(arrays)
  BY <1>1, <1>2, <1>3, <1>5, GlobalSliceIs DEF GlobalOK, Fits, Holds
<1>7. groups \in Seq(Groups) /\ routes \in Seq(Routes) /\ DOMAIN groups = {} /\ DOMAIN routes = {}
  BY <1>4
<1> QED
  BY <1>5, <1>6, <1>7 DEF IInv, GlobalOK, RoutesRunTheirOwn

\* A group joins the others.
LEMMA GroupAdded ==
  ASSUME IInv, NEW b, NEW s, Extends(b, arrays, s), s.array # 1, s.len \in Nat,
         \A x \in DOMAIN groups : EndsBehind(s, groups[x]),
         NEW n \in Groups, GroupOK(b, n), EndsBehind(n.slice, n),
         \A x \in DOMAIN groups :
           EndsBehind(n.slice, groups[x]) /\ EndsBehind(groups[x].slice, n),
         arrays' = b, groups' = Append(groups, n), UNCHANGED routes
  PROVE  IInv'
<1>1. groups \in Seq(Groups) /\ arrays \in Arrays /\ GlobalOK(arrays)
  BY DEF IInv, GlobalOK
<1>2. /\ groups' \in Seq(Groups) /\ Len(groups') = Len(groups) + 1
      /\ \A x \in 1 .. Len(groups) : groups'[x] = groups[x]
      /\ groups'[Len(groups) + 1] = n
  BY <1>1, AppendProperties
<1>3. /\ DOMAIN groups = 1 .. Len(groups) /\ DOMAIN groups' = 1 .. Len(groups')
      /\ Len(groups) \in Nat
  BY <1>1, <1>2, LenProperties
<1>4. \A x \in DOMAIN groups' : groups'[x] = n \/ (x \in DOMAIN groups /\ groups'[x] = groups[x])
  BY <1>2, <1>3
<1>5. \A x \in DOMAIN groups : GroupOK(b, groups[x])
  BY <1>1, <1>3, GroupKept, ElementOfSeq DEF IInv
<1>6. \A x \in DOMAIN groups' : GroupOK(b, groups'[x])
  BY <1>4, <1>5
<1>7. \A x, y \in DOMAIN groups' : EndsBehind(groups'[y].slice, groups'[x])
  BY <1>4 DEF IInv
<1>8. b \in Arrays /\ GlobalOK(b)
  BY <1>1, GlobalKept DEF Extends
<1>9. RoutesRunTheirOwn' /\ routes' \in Seq(Routes)
  BY DEF IInv, RoutesRunTheirOwn
<1> QED
  BY <1>2, <1>6, <1>7, <1>8, <1>9 DEF IInv, GlobalOK, GroupOK, Holds, Fits, EndsBehind, GlobalSlice

LEMMA NewGroupHolds == ASSUME IInv, NewGroup PROVE IInv'
<1>1. PICK ms \in Lists :
        /\ arrays' = Append(arrays, ms)
        /\ groups' = Append(groups, [slice |-> Slice(Len(arrays) + 1, Len(ms)),
                                     depth |-> 1, given |-> ms])
  BY DEF NewGroup, GroupArray
<1> DEFINE s == Slice(Len(arrays) + 1, Len(ms))
           n == [slice |-> s, depth |-> 1, given |-> ms]
           b == Append(arrays, ms)
<1>2. /\ ms \in Seq(Cell) /\ Len(ms) \in Nat /\ arrays \in Arrays /\ Len(arrays) \in Nat
      /\ 1 \in 1 .. Len(arrays)
  BY GivenCells, LenProperties, GlobalSliceIs DEF IInv, Arrays, Fits
<1>3. /\ b \in Arrays /\ Len(b) = Len(arrays) + 1 /\ b[Len(arrays) + 1] = ms
      /\ \A i \in 1 .. Len(arrays) : b[i] = arrays[i]
  BY <1>2, AppendProperties DEF Arrays
<1>4. s \in [array : Nat, len : Nat] /\ s.array = Len(arrays) + 1 /\ s.len = Len(ms)
  BY <1>2 DEF Slice
<1>5. n \in Groups /\ n.slice = s /\ n.depth = 1 /\ n.given = ms
  BY <1>2, <1>4 DEF Groups
<1> HIDE DEF s, n, b
<1>6. Extends(b, arrays, s)
  BY <1>2, <1>3 DEF Extends
<1>7. GroupOK(b, n) /\ EndsBehind(s, n)
  BY <1>2, <1>3, <1>4, <1>5 DEF GroupOK, Fits, Holds, EndsBehind
<1>8. ASSUME NEW x \in DOMAIN groups
      PROVE  EndsBehind(s, groups[x]) /\ EndsBehind(groups[x].slice, n)
  <2>1. groups[x].slice.array \in 1 .. Len(arrays)
    BY DEF IInv, GroupOK, Fits
  <2>2. groups[x].slice.array # s.array
    BY <1>2, <1>4, <2>1
  <2> QED
    BY <1>5, <2>2 DEF EndsBehind
<1>9. arrays' = b /\ groups' = Append(groups, n) /\ UNCHANGED routes
  BY <1>1 DEF NewGroup, b, n, s
<1>10. s.array # 1 /\ s.len \in Nat
  BY <1>2, <1>4
<1> QED
  BY <1>5, <1>6, <1>7, <1>8, <1>9, <1>10, GroupAdded

LEMMA GroupIs ==
  ASSUME IInv, NEW g \in DOMAIN groups
  PROVE  /\ groups[g] \in Groups /\ GroupOK(arrays, groups[g]) /\ arrays \in Arrays
         /\ groups[g].slice \in [array : Nat, len : Nat] /\ Fits(arrays, groups[g].slice)
         /\ groups[g].depth \in Nat \ {0} /\ groups[g].given \in Seq(Cell)
         /\ groups[g].depth <= 2 => Cells(arrays, groups[g].slice) = groups[g].given
<1>1. groups[g] \in Groups /\ GroupOK(arrays, groups[g]) /\ arrays \in Arrays
  BY LenProperties, ElementOfSeq DEF IInv
<1>2. /\ groups[g].slice \in [array : Nat, len : Nat] /\ Fits(arrays, groups[g].slice)
      /\ groups[g].depth \in Nat \ {0} /\ groups[g].given \in Seq(Cell)
  BY <1>1 DEF Groups, GroupOK
<1> QED
  BY <1>1, <1>2, HeldIsCells DEF GroupOK

LEMMA SubGroupHolds == ASSUME IInv, SubGroup PROVE IInv'
<1>1. PICK g \in DOMAIN groups, ms \in Lists :
        LET combined == Append2(arrays, groups[g].slice, ms)
        IN /\ arrays' = combined.arrays
           /\ groups' = Append(groups, [slice |-> combined.slice, depth |-> groups[g].depth + 1,
                                        given |-> groups[g].given \o ms])
  BY DEF SubGroup
<1> DEFINE s == groups[g].slice
           r == Append2(arrays, s, ms)
           b == r.arrays
           n == [slice |-> r.slice, depth |-> groups[g].depth + 1, given |-> groups[g].given \o ms]
<1>2. /\ ms \in Seq(Cell) /\ Len(ms) \in Nat /\ arrays \in Arrays /\ Len(arrays) \in Nat
      /\ 1 \in 1 .. Len(arrays)
  BY GivenCells, LenProperties, GlobalSliceIs DEF IInv, Arrays, Fits
<1>3. /\ s \in [array : Nat, len : Nat] /\ Fits(arrays, s) /\ s.array # 1
      /\ groups[g].depth \in Nat \ {0} /\ groups[g].given \in Seq(Cell)
      /\ groups[g].depth <= 2 => Cells(arrays, s) = groups[g].given
      /\ groups[g].depth = 1 => s.len = Len(arrays[s.array])
  BY GroupIs DEF GroupOK
<1>4. s.array \in Nat /\ s.len \in Nat /\ s.array \in 1 .. Len(arrays)
  BY <1>3 DEF Fits
<1> HIDE DEF s
<1>5. /\ Extends(b, arrays, s) /\ Fits(b, r.slice)
      /\ r.slice \in [array : Nat, len : Nat] /\ r.slice.len = s.len + Len(ms)
      /\ Holds(b, r.slice, Cells(arrays, s) \o ms)
      /\ \/ r.slice.array = s.array /\ s.len + Len(ms) <= Len(arrays[s.array])
         \/ r.slice.array = Len(arrays) + 1
  BY <1>2, <1>3, AppendIs
<1> HIDE DEF r
<1>6. /\ n.slice = r.slice /\ n.depth = groups[g].depth + 1 /\ n.given = groups[g].given \o ms
      /\ n \in Groups
  <2>1. groups[g].given \o ms \in Seq(Cell)
    BY <1>2, <1>3, ConcatProperties
  <2>2. groups[g].depth + 1 \in Nat
    BY <1>3
  <2> QED
    BY <1>5, <2>1, <2>2 DEF Groups
<1> HIDE DEF n
<1>7. GroupOK(b, n) /\ EndsBehind(n.slice, n)
  <2>1. n.slice.array # 1 /\ n.depth # 0 /\ n.depth # 1
    BY <1>2, <1>3, <1>5, <1>6
  <2>2. n.depth <= 2 => Holds(b, n.slice, n.given)
    BY <1>3, <1>5, <1>6
  <2>3. n.slice.len <= n.slice.len
    BY <1>4, <1>2, <1>5, <1>6
  <2> QED
    BY <1>5, <1>6, <2>1, <2>2, <2>3 DEF GroupOK, EndsBehind
<1>8. \A x \in DOMAIN groups : EndsBehind(s, groups[x]) /\ EndsBehind(groups[x].slice, groups[g])
  BY DEF IInv, s
<1>9. ASSUME NEW x \in DOMAIN groups
      PROVE  EndsBehind(n.slice, groups[x]) /\ EndsBehind(groups[x].slice, n)
  <2>1. groups[x].slice.array \in 1 .. Len(arrays) /\ groups[x].slice.len \in Nat
    BY GroupIs DEF Fits
  <2>2. CASE n.slice.array = Len(arrays) + 1
    BY <1>2, <2>1, <2>2 DEF EndsBehind
  <2>3. CASE n.slice.array = s.array /\ s.len + Len(ms) <= Len(arrays[s.array])
    <3>1. EndsBehind(n.slice, groups[x])
      BY <1>2, <1>4, <1>5, <1>6, <1>8, <2>1, <2>3 DEF EndsBehind
    <3>2. ASSUME n.depth <= 2, n.slice.array = groups[x].slice.array
          PROVE  n.slice.len <= groups[x].slice.len
      <4>1. groups[g].depth = 1
        BY <1>3, <1>6, <3>2
      <4>2. n.slice.len = s.len
        BY <1>2, <1>3, <1>4, <1>5, <1>6, <2>3, <4>1
      <4>3. EndsBehind(groups[x].slice, groups[g])
        BY <1>8
      <4>4. groups[g].depth <= 2
        BY <4>1
      <4>5. s.array = groups[x].slice.array
        BY <2>3, <3>2
      <4>6. groups[g].slice.array = groups[x].slice.array
        BY <4>5 DEF s
      <4>7. groups[g].slice.len <= groups[x].slice.len
        BY <4>3, <4>4, <4>6 DEF EndsBehind
      <4>8. s.len <= groups[x].slice.len
        BY <4>7 DEF s
      <4> QED
        BY <4>2, <4>8
    <3> QED
      BY <3>1, <3>2 DEF EndsBehind
  <2> QED
    BY <1>5, <1>6, <2>2, <2>3
<1>10. arrays' = b /\ groups' = Append(groups, n) /\ UNCHANGED routes
  BY <1>1 DEF SubGroup, n, r, s
<1> QED
  BY <1>3, <1>4, <1>5, <1>6, <1>7, <1>8, <1>9, <1>10, GroupAdded

\* A route's chain is what it was given, if its group still views its own cells.
LEMMA HandleHolds == ASSUME IInv, Handle PROVE IInv'
<1>1. PICK g \in DOMAIN groups, ms \in Lists :
        LET own == WithGroupMiddleware(arrays, g, ms)
            all == Append2(own.arrays, GlobalSlice, Cells(own.arrays, own.slice))
        IN /\ arrays' = all.arrays
           /\ routes' = Append(routes, [chain |-> Cells(all.arrays, all.slice),
                                        depth |-> groups[g].depth,
                                        given |-> Global \o groups[g].given \o ms])
  BY DEF Handle
<1> DEFINE s == groups[g].slice
           own == Append2(arrays, s, ms)
           mine == Cells(own.arrays, own.slice)
           all == Append2(own.arrays, GlobalSlice, mine)
           route == [chain |-> Cells(all.arrays, all.slice), depth |-> groups[g].depth,
                     given |-> Global \o groups[g].given \o ms]
<1>2. ms \in Seq(Cell) /\ arrays \in Arrays /\ Global \in Seq(Cell) /\ GlobalOK(arrays)
  BY GivenCells DEF IInv, GlobalOK
<1>3. /\ s \in [array : Nat, len : Nat] /\ Fits(arrays, s) /\ s.array # 1 /\ s.len \in Nat
      /\ groups[g].depth \in Nat /\ groups[g].given \in Seq(Cell)
      /\ groups[g].depth <= 2 => Cells(arrays, s) = groups[g].given
  BY GroupIs DEF GroupOK
<1>4. /\ Extends(own.arrays, arrays, s) /\ Fits(own.arrays, own.slice)
      /\ Holds(own.arrays, own.slice, Cells(arrays, s) \o ms)
  BY <1>2, <1>3, AppendIs
<1>5. own.arrays \in Arrays /\ GlobalOK(own.arrays)
  BY <1>2, <1>3, <1>4, GlobalKept DEF Extends
<1>6. Cells(arrays, s) \o ms \in Seq(Cell)
  BY <1>2, <1>3, CellsAre, ConcatProperties
<1>7. mine = Cells(arrays, s) \o ms /\ mine \in Seq(Cell)
  BY <1>4, <1>5, <1>6, HeldIsCells
<1> HIDE DEF own, mine
<1>8. /\ Extends(all.arrays, own.arrays, GlobalSlice) /\ Fits(all.arrays, all.slice)
      /\ Holds(all.arrays, all.slice, Cells(own.arrays, GlobalSlice) \o mine)
  BY <1>5, <1>7, GlobalSliceIs, AppendIs DEF GlobalOK
<1>9. all.arrays \in Arrays /\ GlobalOK(all.arrays)
  BY <1>5, <1>8, GlobalKept DEF Extends
<1>10. Cells(own.arrays, GlobalSlice) = Global
  BY <1>2, <1>5, HeldIsCells DEF GlobalOK
<1>11. Cells(all.arrays, all.slice) = Global \o mine /\ Global \o mine \in Seq(Cell)
  <2>1. Global \o mine \in Seq(Cell)
    BY <1>2, <1>7, ConcatProperties
  <2> QED
    BY <1>8, <1>9, <1>10, <2>1, HeldIsCells
<1> HIDE DEF all
<1>12. groups[g].depth <= 2 => route.chain = route.given
  <2>1. Global \o (groups[g].given \o ms) = Global \o groups[g].given \o ms
    <3> DEFINE given == groups[g].given
    <3>1. given \in Seq(Cell)
      BY <1>3
    <3> HIDE DEF given
    <3>2. Global \o (given \o ms) = Global \o given \o ms
      BY <1>2, <3>1, ConcatAssociative
    <3> QED
      BY <3>2 DEF given
  <2> QED
    BY <1>3, <1>7, <1>11, <2>1
<1>13. route \in Routes
  <2>1. Global \o groups[g].given \in Seq(Cell)
    BY <1>2, <1>3, ConcatProperties
  <2>2. Global \o groups[g].given \o ms \in Seq(Cell)
    BY <1>2, <2>1, ConcatProperties
  <2> QED
    BY <1>3, <1>11, <2>2 DEF Routes
<1>14. route.depth = groups[g].depth
  OBVIOUS
<1>15. arrays' = all.arrays /\ routes' = Append(routes, route) /\ UNCHANGED groups
  BY <1>1 DEF Handle, WithGroupMiddleware, own, mine, all
<1> HIDE DEF route
<1>16. ASSUME NEW x \in DOMAIN groups PROVE GroupOK(all.arrays, groups[x])
  <2>1. groups[x] \in Groups /\ GroupOK(arrays, groups[x]) /\ EndsBehind(s, groups[x])
    BY GroupIs DEF IInv
  <2>2. GroupOK(own.arrays, groups[x])
    BY <1>2, <1>3, <1>4, <2>1, GroupKept
  <2>3. EndsBehind(GlobalSlice, groups[x]) /\ GlobalSlice.len \in Nat
    BY <2>1, GlobalSliceIs DEF GroupOK, EndsBehind
  <2> QED
    BY <1>5, <1>8, <2>1, <2>2, <2>3, GroupKept
<1>17. /\ routes' \in Seq(Routes) /\ DOMAIN routes' = 1 .. Len(routes) + 1
       /\ \A x \in 1 .. Len(routes) : routes'[x] = routes[x]
       /\ routes'[Len(routes) + 1] = route
  <2>1. routes \in Seq(Routes)
    BY DEF IInv
  <2>2. /\ routes' \in Seq(Routes) /\ Len(routes') = Len(routes) + 1
        /\ \A x \in 1 .. Len(routes) : routes'[x] = routes[x]
        /\ routes'[Len(routes) + 1] = route
    BY <1>13, <1>15, <2>1, AppendProperties
  <2> QED
    BY <2>2, LenProperties
<1>18. RoutesRunTheirOwn'
  <2>1. DOMAIN routes = 1 .. Len(routes) /\ Len(routes) \in Nat
    BY LenProperties DEF IInv
  <2>2. ASSUME NEW x \in DOMAIN routes', routes'[x].depth <= 2
        PROVE  routes'[x].chain = routes'[x].given
    <3>1. CASE x = Len(routes) + 1
      BY <1>12, <1>14, <1>17, <2>2, <3>1
    <3>2. CASE x # Len(routes) + 1
      BY <1>17, <2>1, <2>2, <3>2 DEF IInv, RoutesRunTheirOwn
    <3> QED
      BY <3>1, <3>2
  <2> QED
    BY <2>2 DEF RoutesRunTheirOwn
<1> QED
  BY <1>9, <1>15, <1>16, <1>17, <1>18 DEF IInv, GlobalOK, GroupOK, Holds, Fits, EndsBehind,
     GlobalSlice

LEMMA StepHolds == IInv /\ [Register]_groupVars => IInv'
<1> SUFFICES ASSUME IInv, [Register]_groupVars PROVE IInv'
  OBVIOUS
<1>1. CASE UNCHANGED groupVars
  BY <1>1 DEF groupVars, IInv, GroupOK, Holds, Fits, EndsBehind, GlobalSlice, RoutesRunTheirOwn
<1> QED
  BY <1>1, NewGroupHolds, SubGroupHolds, HandleHolds DEF Register

(* For any lists of middleware and any number of groups and routes: every  *)
(* route of a group of the first two levels runs the handler's middleware, *)
(* its groups' and its own, although append lets their slices share arrays *)
(* (routegroups.go, handler.go, middleware.go buildHandlerChain).          *)
THEOREM ChainsAreTheirOwn == GroupsSpec => []RoutesRunTheirOwn
<1>1. IInv => RoutesRunTheirOwn
  BY DEF IInv
<1> QED
  BY <1>1, InitHolds, StepHolds, PTL DEF GroupsSpec
=============================================================================
