-------------------------- MODULE ExportTableProofs --------------------------
(***************************************************************************)
(* What the ELF reader promises, for any mappings of the process, any      *)
(* libraries and any symbols asked for, whatever another thread maps; and  *)
(* that every exported call finds what it goes through.                    *)
(***************************************************************************)
EXTENDS ExportTable, SequenceTheorems, FiniteSetTheorems,
        WellFoundedInduction, TLAPS

-----------------------------------------------------------------------------
(***************************************************************************)
(* Numbers and sequences.                                                  *)
(***************************************************************************)
LEMMA LeastNat ==
  ASSUME NEW W, W \subseteq Nat, W # {}
  PROVE  \E x \in W : \A y \in W : x <= y
<1>1. PICK x \in W : \A y \in W : ~(<<y, x>> \in OpToRel(<, Nat))
  BY WFMin, NatLessThanWellFounded
<1>2. \A y \in W : ~(y < x)
  BY <1>1 DEF OpToRel
<1> QED BY <1>2

LEMMA NatIsInductive ==
  ASSUME NEW W, 0 \in W, \A n \in Nat : n \in W => n + 1 \in W
  PROVE  Nat \subseteq W
<1> SUFFICES ASSUME Nat \ W # {} PROVE FALSE
  OBVIOUS
<1>1. PICK x \in Nat \ W : \A y \in Nat \ W : x <= y
  BY LeastNat
<1>2. x # 0 /\ x - 1 \in Nat /\ x - 1 \in W
  BY <1>1
<1> QED BY <1>1, <1>2

(* The n-th of some indices is one of them, or there are fewer.            *)
LEMMA NthIs ==
  ASSUME NEW k \in Nat, NEW set \in SUBSET (1 .. k), NEW n \in Nat \ {0}
  PROVE  Nth(set, n) \in set \cup {0}
<1> SUFFICES ASSUME ~(Cardinality(set) < n) PROVE Nth(set, n) \in set
  BY DEF Nth
<1> DEFINE upTo   == [m \in Nat |-> {j \in set : j <= m}]
           enough == {m \in Nat : Cardinality(upTo[m]) >= n}
<1>1. \A m \in Nat : upTo[m] = {j \in set : j <= m}
  OBVIOUS
<1> HIDE DEF upTo
<1>2. ASSUME NEW m \in Nat
      PROVE  IsFiniteSet(upTo[m]) /\ Cardinality(upTo[m]) \in Nat
  <2>1. upTo[m] = {j \in set : j <= m}
    BY <1>1
  <2>2. IsFiniteSet(1 .. k)
    BY FS_Interval
  <2>3. upTo[m] \subseteq set
    BY <2>1
  <2>4. IsFiniteSet(1 .. k) /\ upTo[m] \in SUBSET (1 .. k)
    BY <2>2, <2>3
  <2>5. IsFiniteSet(upTo[m])
    BY <2>4, FS_Subset
  <2> QED BY <2>5, FS_CardinalityType
<1>3. k \in enough
  <2>1. upTo[k] = {j \in set : j <= k}
    BY <1>1
  <2>2. \A j \in set : j <= k
    OBVIOUS
  <2>3. upTo[k] = set
    BY <2>1, <2>2
  <2> QED BY <1>2, <2>3
<1>4. PICK m \in enough : \A o \in enough : m <= o
  <2>1. enough \subseteq Nat /\ enough # {}
    BY <1>3
  <2> HIDE DEF enough
  <2> QED BY <2>1, LeastNat
<1>5. m \in Nat /\ Cardinality(upTo[m]) >= n
  BY <1>4
<1>6. m # 0
  <2>1. upTo[0] = {j \in set : j <= 0} /\ \A j \in set : ~(j <= 0)
    BY <1>1
  <2>2. upTo[0] = {}
    BY <2>1
  <2> QED BY <1>5, <2>2, FS_EmptySet
<1>7. m - 1 \in Nat /\ Cardinality(upTo[m - 1]) < n
  <2>1. m - 1 \in Nat /\ m - 1 \notin enough
    BY <1>4, <1>5, <1>6
  <2>2. Cardinality(upTo[m - 1]) \in Nat
    BY <1>2, <2>1
  <2> QED BY <2>1, <2>2
<1>8. m \in set
  <2> SUFFICES ASSUME m \notin set PROVE FALSE
    OBVIOUS
  <2>1. /\ upTo[m] = {j \in set : j <= m}
        /\ upTo[m - 1] = {j \in set : j <= m - 1}
    BY <1>1, <1>5, <1>7
  <2>2. \A j \in set : j <= m <=> j <= m - 1
    BY <1>5
  <2>3. upTo[m] = upTo[m - 1]
    BY <2>1, <2>2
  <2> QED BY <1>2, <1>5, <1>7, <2>3
<1>9. Cardinality(upTo[m]) = n
  <2>1. /\ upTo[m] = {j \in set : j <= m}
        /\ upTo[m - 1] = {j \in set : j <= m - 1}
    BY <1>1, <1>5, <1>7
  <2>2. /\ \A j \in set : j <= m <=> j <= m - 1 \/ j = m
        /\ ~(m <= m - 1)
    BY <1>5
  <2>3. upTo[m] = upTo[m - 1] \cup {m} /\ m \notin upTo[m - 1]
    BY <1>8, <2>1, <2>2
  <2>4. Cardinality(upTo[m]) = Cardinality(upTo[m - 1]) + 1
    BY <1>2, <1>7, <2>3, FS_AddElement
  <2> QED BY <1>2, <1>5, <1>7, <2>4
<1>10. \E i \in set : Cardinality({j \in set : j <= i}) = n
  BY <1>1, <1>5, <1>8, <1>9
<1>11. Nth(set, n) = CHOOSE i \in set : Cardinality({j \in set : j <= i}) = n
  BY DEF Nth
<1> QED BY <1>10, <1>11

LEMMA LeastIs ==
  ASSUME NEW k \in Nat, NEW set \in SUBSET (1 .. k)
  PROVE  Least(set) \in set \cup {0}
BY NthIs DEF Least

-----------------------------------------------------------------------------
(***************************************************************************)
(* The library in the maps.                                                *)
(***************************************************************************)
Scans(scan, lines, name, n) ==
  scan[n] = IF n = 0 THEN Unstarted ELSE Line(name, scan[n - 1], lines[n])

LEMMA ScanUpTo ==
  ASSUME NEW X, NEW lines \in Seq(X), NEW name
  PROVE  \A m \in Nat : \E scan : \A n \in 0 .. m : Scans(scan, lines, name, n)
<1> DEFINE W == {m \in Nat : \E scan : \A n \in 0 .. m : Scans(scan, lines, name, n)}
<1>1. 0 \in W
  <2> DEFINE scan == [n \in 0 .. 0 |-> Unstarted]
  <2>1. \A n \in 0 .. 0 : Scans(scan, lines, name, n)
    BY DEF Scans
  <2> QED BY <2>1
<1>2. ASSUME NEW m \in Nat, m \in W PROVE m + 1 \in W
  <2>1. PICK scan : \A n \in 0 .. m : Scans(scan, lines, name, n)
    BY <1>2
  <2> DEFINE last == Line(name, scan[m], lines[m + 1])
             more == [n \in 0 .. m + 1 |-> IF n <= m THEN scan[n] ELSE last]
  <2> HIDE DEF last
  <2>2. ASSUME NEW n \in 0 .. m + 1 PROVE Scans(more, lines, name, n)
    <3>1. CASE n = m + 1
      <4>1. more[n] = last /\ n # 0 /\ n - 1 = m /\ more[n - 1] = scan[m]
        BY <3>1
      <4> HIDE DEF more
      <4> QED BY <3>1, <4>1 DEF Scans, last
    <3>2. CASE n # m + 1
      <4>1. n \in 0 .. m /\ more[n] = scan[n] /\ (n # 0 => more[n - 1] = scan[n - 1])
        BY <3>2
      <4>2. Scans(scan, lines, name, n)
        BY <2>1, <4>1
      <4> HIDE DEF more
      <4> QED BY <4>1, <4>2 DEF Scans
    <3> QED BY <3>1, <3>2
  <2> HIDE DEF more
  <2> QED BY <2>2
<1>3. Nat \subseteq W
  <2> HIDE DEF W
  <2> QED BY <1>1, <1>2, NatIsInductive
<1> QED BY <1>3

LEMMA ScanIs ==
  ASSUME NEW X, NEW lines \in Seq(X), NEW name
  PROVE  \E scan : /\ \A n \in 0 .. Len(lines) : Scans(scan, lines, name, n)
                   /\ ReadLibraryMap(lines, name) = scan[Len(lines)]
<1> DEFINE Rule(f) == [n \in 0 .. Len(lines) |->
                         IF n = 0 THEN Unstarted
                         ELSE Line(name, f[n - 1], lines[n])]
           scan == CHOOSE f : f = Rule(f)
<1>1. PICK w : \A n \in 0 .. Len(lines) : Scans(w, lines, name, n)
  <2>1. Len(lines) \in Nat
    BY LenProperties
  <2> QED BY <2>1, ScanUpTo
<1> DEFINE v == [n \in 0 .. Len(lines) |-> w[n]]
<1>2. v = Rule(v)
  <2>1. \A n \in 0 .. Len(lines) : n # 0 => n - 1 \in 0 .. Len(lines)
    BY LenProperties
  <2> QED BY <1>1, <2>1 DEF Scans
<1>3. scan = Rule(scan)
  <2> HIDE DEF v
  <2> QED BY <1>2
<1>4. ReadLibraryMap(lines, name) = scan[Len(lines)]
  BY DEF ReadLibraryMap
<1> HIDE DEF scan
<1>5. \A n \in 0 .. Len(lines) : Scans(scan, lines, name, n)
  BY <1>3 DEF Scans
<1> QED BY <1>4, <1>5

(* What a scan knows after n lines: it has found nothing, or the lines     *)
(* from f to e, of one file but for those of none, of which the first is   *)
(* one the library could begin at.                                         *)
Collected(scan, lines, name, f, e) ==
  /\ scan.started
  /\ Matches(lines[f], name)
  /\ scan.inode = lines[f].inode
  /\ scan.pages # <<>> /\ scan.pages[1] = lines[f]
  /\ \A k \in f .. e : lines[k].inode \in {0, scan.inode}
  /\ \A p \in DOMAIN scan.pages :
       \E g \in f .. e : scan.pages[p] = lines[g] /\ lines[g].inode = scan.inode

Scanned(scan, lines, name, n) ==
  \/ scan = Unstarted
  \/ \E f \in 1 .. n, e \in 1 .. n :
       /\ f <= e
       /\ Collected(scan, lines, name, f, e)
       /\ ~scan.ended => e = n

ScanRecord(X) ==
  [started : BOOLEAN, inode : {x.inode : x \in X} \cup {0},
   prot : SUBSET UNION {x.prot : x \in X}, pages : Seq(X), ended : BOOLEAN]

LEMMA LineStep ==
  ASSUME NEW X, NEW lines \in Seq(X), NEW name, NEW n \in 1 .. Len(lines),
         NEW scan \in ScanRecord(X), Scanned(scan, lines, name, n - 1)
  PROVE  LET after == Line(name, scan, lines[n]) IN
         after \in ScanRecord(X) /\ Scanned(after, lines, name, n)
<1> DEFINE line  == lines[n]
           after == Line(name, scan, line)
           Taken == [scan EXCEPT !.started = TRUE, !.inode = line.inode,
                                 !.prot = @ \cup line.prot,
                                 !.pages = Append(@, line)]
           Ended == [scan EXCEPT !.ended = TRUE]
<1> SUFFICES after \in ScanRecord(X) /\ Scanned(after, lines, name, n)
  OBVIOUS
<1>1. line \in X /\ n \in Nat /\ n - 1 \in Nat /\ 1 <= n
  BY LenProperties
<1>2. Unstarted \in ScanRecord(X)
  BY DEF Unstarted, ScanRecord
<1>3. Ended \in ScanRecord(X)
  BY DEF ScanRecord
<1>4. Taken \in ScanRecord(X)
  <2>1. Append(scan.pages, line) \in Seq(X)
    BY <1>1, AppendProperties DEF ScanRecord
  <2>2. scan.prot \cup line.prot \in SUBSET UNION {x.prot : x \in X}
    BY <1>1 DEF ScanRecord
  <2>3. line.inode \in {x.inode : x \in X} \cup {0}
    BY <1>1
  <2> QED BY <2>1, <2>2, <2>3 DEF ScanRecord
<1> HIDE DEF line
<1>5. \/ after = scan /\ (scan.ended \/ ~scan.started)
      \/ after = scan /\ line.inode = 0 /\ scan.started /\ ~scan.ended
      \/ after = Ended /\ scan.started
      \/ after = Unstarted
      \/ after = Taken /\ ~scan.started /\ Matches(line, name)
      \/ after = Taken /\ scan.started /\ ~scan.ended /\ line.inode = scan.inode
  <2>1. scan.started \in BOOLEAN /\ scan.ended \in BOOLEAN
    BY DEF ScanRecord
  <2> QED BY <2>1, Zenon DEF Line, OtherFile, Matches
<1> HIDE DEF after
<1>6. ASSUME scan # Unstarted, ~scan.ended
      PROVE  \E f \in 1 .. n - 1 : f <= n - 1 /\ Collected(scan, lines, name, f, n - 1)
  BY <1>6 DEF Scanned
<1>7. ASSUME NEW r, NEW f \in 1 .. n, NEW e \in 1 .. n, f <= e,
             Collected(r, lines, name, f, e), r.ended \/ e = n
      PROVE  Scanned(r, lines, name, n)
  BY <1>7 DEF Scanned
<1>8. CASE after = scan /\ (scan.ended \/ ~scan.started)
  <2>1. CASE scan = Unstarted
    BY <1>8, <2>1 DEF Scanned
  <2>2. CASE scan # Unstarted
    <3>1. PICK f \in 1 .. n - 1, e \in 1 .. n - 1 :
             f <= e /\ Collected(scan, lines, name, f, e)
      BY <2>2 DEF Scanned
    <3>2. f \in 1 .. n /\ e \in 1 .. n /\ scan.ended
      BY <1>1, <1>8, <3>1 DEF Collected
    <3> QED BY <1>7, <1>8, <3>1, <3>2
  <2> QED BY <2>1, <2>2
<1>9. CASE /\ after = scan /\ line.inode = 0 /\ scan.started /\ ~scan.ended
  <2>1. scan # Unstarted
    BY <1>9 DEF Unstarted
  <2>2. PICK f \in 1 .. n - 1 : f <= n - 1 /\ Collected(scan, lines, name, f, n - 1)
    BY <1>6, <1>9, <2>1
  <2>3. lines[n].inode \in {0, scan.inode}
    BY <1>9 DEF line
  <2>4. /\ \A k \in f .. n : k = n \/ k \in f .. n - 1
        /\ \A k \in f .. n - 1 : k \in f .. n
        /\ f \in 1 .. n /\ n \in 1 .. n /\ f <= n
    BY <1>1, <2>2
  <2>5. Collected(scan, lines, name, f, n)
    BY <2>2, <2>3, <2>4 DEF Collected
  <2> QED BY <1>7, <1>9, <2>4, <2>5
<1>10. CASE after = Ended /\ scan.started
  <2>1. scan # Unstarted
    BY <1>10 DEF Unstarted
  <2>2. PICK f \in 1 .. n - 1, e \in 1 .. n - 1 :
           f <= e /\ Collected(scan, lines, name, f, e)
    BY <2>1 DEF Scanned
  <2>3. /\ Ended.started = scan.started /\ Ended.inode = scan.inode
        /\ Ended.pages = scan.pages /\ Ended.ended
    BY DEF ScanRecord
  <2> HIDE DEF Ended
  <2>4. Collected(Ended, lines, name, f, e)
    BY <2>2, <2>3 DEF Collected
  <2>5. f \in 1 .. n /\ e \in 1 .. n
    BY <1>1, <2>2
  <2> QED BY <1>3, <1>7, <1>10, <2>2, <2>3, <2>4, <2>5
<1>11. CASE after = Unstarted
  BY <1>2, <1>11 DEF Scanned
<1>12. CASE after = Taken /\ ~scan.started /\ Matches(line, name)
  <2>1. scan = Unstarted
    BY <1>12 DEF Scanned, Collected
  <2>2. /\ Taken.started /\ Taken.inode = line.inode /\ ~Taken.ended
        /\ Taken.pages = Append(<<>>, line)
    BY <2>1 DEF Unstarted
  <2>3. /\ Taken.pages # <<>> /\ Taken.pages[1] = line
        /\ \A p \in DOMAIN Taken.pages : Taken.pages[p] = line
    BY <2>2
  <2> HIDE DEF Taken
  <2>4. /\ \A k \in n .. n : k = n
        /\ n \in n .. n /\ n \in 1 .. n
    BY <1>1
  <2>5. Collected(Taken, lines, name, n, n)
    BY <1>12, <2>2, <2>3, <2>4 DEF Collected, line
  <2>6. Scanned(Taken, lines, name, n)
    <3>1. \E f \in 1 .. n, e \in 1 .. n :
             f <= e /\ Collected(Taken, lines, name, f, e) /\ (~Taken.ended => e = n)
      <4>1. n <= n /\ n \in 1 .. n
        BY <1>1
      <4> QED BY <2>5, <4>1
    <3> QED BY <3>1 DEF Scanned
  <2> QED BY <1>4, <1>12, <2>6
<1>13. CASE /\ after = Taken /\ scan.started /\ ~scan.ended
            /\ line.inode = scan.inode
  <2>1. scan # Unstarted
    BY <1>13 DEF Unstarted
  <2>2. PICK f \in 1 .. n - 1 : f <= n - 1 /\ Collected(scan, lines, name, f, n - 1)
    BY <1>6, <1>13, <2>1
  <2>3. /\ Taken.started /\ Taken.inode = scan.inode /\ ~Taken.ended
        /\ Taken.pages = Append(scan.pages, line)
    BY <1>13 DEF ScanRecord
  <2>4. scan.pages \in Seq(X)
    BY DEF ScanRecord
  <2>5. /\ Taken.pages # <<>> /\ Taken.pages[1] = scan.pages[1]
        /\ \A p \in DOMAIN Taken.pages :
             \/ p \in DOMAIN scan.pages /\ Taken.pages[p] = scan.pages[p]
             \/ Taken.pages[p] = line
    <3> HIDE DEF Taken
    <3>1. scan.pages # <<>>
      BY <2>2 DEF Collected
    <3> QED BY <1>1, <2>3, <2>4, <3>1, AppendProperties, LenProperties
  <2> HIDE DEF Taken
  <2>6. /\ Matches(lines[f], name) /\ scan.inode = lines[f].inode
        /\ scan.pages[1] = lines[f]
    BY <2>2 DEF Collected
  <2>7. \A k \in f .. n : lines[k].inode \in {0, scan.inode}
    <3>1. \A k \in f .. n : k = n \/ k \in f .. n - 1
      BY <1>1, <2>2
    <3>2. lines[n].inode = scan.inode
      BY <1>13 DEF line
    <3> QED BY <2>2, <3>1, <3>2 DEF Collected
  <2>8. ASSUME NEW p \in DOMAIN Taken.pages
        PROVE  \E g \in f .. n : Taken.pages[p] = lines[g] /\ lines[g].inode = scan.inode
    <3>1. CASE p \in DOMAIN scan.pages /\ Taken.pages[p] = scan.pages[p]
      <4>1. PICK g \in f .. n - 1 : scan.pages[p] = lines[g] /\ lines[g].inode = scan.inode
        BY <2>2, <3>1 DEF Collected
      <4>2. g \in f .. n
        BY <1>1, <2>2, <4>1
      <4> QED BY <3>1, <4>1, <4>2
    <3>2. CASE Taken.pages[p] = line
      <4>1. n \in f .. n
        BY <1>1, <2>2
      <4> QED BY <1>13, <3>2, <4>1 DEF line
    <3> QED BY <2>5, <3>1, <3>2
  <2>9. Collected(Taken, lines, name, f, n)
    BY <2>3, <2>5, <2>6, <2>7, <2>8 DEF Collected
  <2>10. f \in 1 .. n /\ n \in 1 .. n /\ f <= n
    BY <1>1, <2>2
  <2> QED BY <1>4, <1>7, <1>13, <2>9, <2>10
<1> QED BY <1>5, <1>8, <1>9, <1>10, <1>11, <1>12, <1>13

LEMMA MapIsScanned ==
  ASSUME NEW X, NEW lines \in Seq(X), NEW name
  PROVE  /\ ReadLibraryMap(lines, name) \in ScanRecord(X)
         /\ Scanned(ReadLibraryMap(lines, name), lines, name, Len(lines))
<1>1. PICK scan : /\ \A n \in 0 .. Len(lines) : Scans(scan, lines, name, n)
                  /\ ReadLibraryMap(lines, name) = scan[Len(lines)]
  BY ScanIs
<1> DEFINE W == {n \in Nat : n <= Len(lines) =>
                   scan[n] \in ScanRecord(X) /\ Scanned(scan[n], lines, name, n)}
<1>2. Len(lines) \in Nat
  BY LenProperties
<1>3. 0 \in W
  <2>1. scan[0] = Unstarted
    BY <1>1, <1>2 DEF Scans
  <2>2. Unstarted \in ScanRecord(X)
    BY DEF Unstarted, ScanRecord
  <2> QED BY <2>1, <2>2 DEF Scanned
<1>4. ASSUME NEW n \in Nat, n \in W PROVE n + 1 \in W
  <2> SUFFICES ASSUME n + 1 <= Len(lines)
               PROVE  /\ scan[n + 1] \in ScanRecord(X)
                      /\ Scanned(scan[n + 1], lines, name, n + 1)
    OBVIOUS
  <2>1. n + 1 \in 1 .. Len(lines) /\ (n + 1) - 1 = n /\ n + 1 # 0
    BY <1>2
  <2>2. scan[n] \in ScanRecord(X) /\ Scanned(scan[n], lines, name, (n + 1) - 1)
    BY <1>2, <1>4, <2>1
  <2>3. scan[n + 1] = Line(name, scan[n], lines[n + 1])
    BY <1>1, <2>1 DEF Scans
  <2> QED BY <2>1, <2>2, <2>3, LineStep
<1>5. Nat \subseteq W
  <2> HIDE DEF W
  <2> QED BY <1>3, <1>4, NatIsInductive
<1> QED BY <1>1, <1>2, <1>5

(* A library is found at line f: one of its lines, g, may be executed or   *)
(* written, and no line from f to g is of another file.                    *)
Spot(lines, name, f, g) ==
  /\ f \in 1 .. Len(lines) /\ g \in f .. Len(lines)
  /\ Matches(lines[f], name)
  /\ lines[g].prot \cap {"x", "w"} # {}
  /\ lines[g].inode = lines[f].inode
  /\ \A k \in f .. g : lines[k].inode \in {0, lines[f].inode}

LEMMA ProtectIs ==
  ASSUME NEW X, NEW lines \in Seq(X), NEW name,
         GetLibraryProtect(lines, name) # <<>>
  PROVE  \E f, g : /\ Spot(lines, name, f, g)
                   /\ GetLibraryProtect(lines, name) \in Seq(X)
                   /\ GetLibraryProtect(lines, name)[1] = lines[f]
<1> DEFINE scan == ReadLibraryMap(lines, name)
<1>1. scan \in ScanRecord(X) /\ Scanned(scan, lines, name, Len(lines))
  BY MapIsScanned
<1>2. GetLibraryProtect(lines, name) = scan.pages /\ VerifyLibraryMap(scan.pages)
  BY DEF GetLibraryProtect
<1> HIDE DEF scan
<1>3. scan.pages \in Seq(X)
  BY <1>1 DEF ScanRecord
<1>4. scan # Unstarted
  BY <1>2 DEF Unstarted, VerifyLibraryMap
<1>5. PICK f \in 1 .. Len(lines), e \in 1 .. Len(lines) :
         f <= e /\ Collected(scan, lines, name, f, e)
  BY <1>1, <1>4 DEF Scanned
<1>6. PICK p \in DOMAIN scan.pages : scan.pages[p].prot \cap {"x", "w"} # {}
  BY <1>2 DEF VerifyLibraryMap
<1>7. PICK g \in f .. e : scan.pages[p] = lines[g] /\ lines[g].inode = scan.inode
  BY <1>5, <1>6 DEF Collected
<1>8. /\ Matches(lines[f], name) /\ scan.inode = lines[f].inode
      /\ scan.pages[1] = lines[f]
      /\ \A k \in f .. e : lines[k].inode \in {0, scan.inode}
  BY <1>5 DEF Collected
<1>9. Len(lines) \in Nat
  BY LenProperties
<1>10. g \in f .. Len(lines) /\ \A k \in f .. g : k \in f .. e
  BY <1>5, <1>7, <1>9
<1>11. Spot(lines, name, f, g)
  BY <1>5, <1>6, <1>7, <1>8, <1>10 DEF Spot
<1> QED BY <1>2, <1>3, <1>8, <1>11

LEMMA BaseIs ==
  ASSUME NEW X, NEW pages \in Seq(X), pages # <<>>, pages[1].offset = 0,
         \A x \in X : x.offset \in Nat
  PROVE  GetLibraryBaseAddress(pages) = pages[1].start
<1> DEFINE Least1(i) == \A j \in DOMAIN pages :
                          \/ pages[i].offset < pages[j].offset
                          \/ pages[i].offset = pages[j].offset /\ i <= j
           first == CHOOSE i \in DOMAIN pages : Least1(i)
<1>1. DOMAIN pages = 1 .. Len(pages) /\ Len(pages) \in Nat /\ 1 \in DOMAIN pages
  BY LenProperties
<1>2. \A j \in DOMAIN pages : pages[j].offset \in Nat
  BY <1>1
<1>3. Least1(1)
  BY <1>1, <1>2
<1>4. first \in DOMAIN pages /\ Least1(first)
  BY <1>1, <1>3
<1>5. GetLibraryBaseAddress(pages) = pages[first].start
  BY DEF GetLibraryBaseAddress
<1> HIDE DEF first
<1>6. first = 1
  <2>1. \/ pages[first].offset < pages[1].offset
        \/ pages[first].offset = pages[1].offset /\ first <= 1
    BY <1>1, <1>4
  <2> QED BY <1>1, <1>2, <1>4, <2>1
<1> QED BY <1>5, <1>6
-----------------------------------------------------------------------------
(***************************************************************************)
(* The inductive invariant, in parts.                                      *)
(***************************************************************************)
(* Another thread's copy is one of a library's file, in a gap.             *)
CopyInv ==
  copy # NoCopy => copy.at \in CopyAt /\ copy.inode \in DOMAIN Library

(* What has not happened yet: a reader that reads nothing has no fields    *)
(* set, answers come last, and only LoadSymbol caches.                     *)
PhaseInv ==
  /\ pc \in {"idle", "memory"} => reader = NoReader
  /\ pc \notin {"process", "result", "done", "fault"} => answers = {}
  /\ pc \notin {"process", "done"} => reader.cache = {}
  /\ pc # "idle" /\ request.call = "symbol" => Len(request.units) = 1
  /\ request.call = "symbols" => request.units # <<>>

(* The reader has the number of a library; where the load bias is right.   *)
BiasInv ==
  /\ reader.load \/ reader.disk
       \/ pc \in {"opened", "read", "mapped", "xz", "parsed", "cache"}
       => reader.inode \in DOMAIN Library
  /\ reader.diskLoad => reader.disk
  /\ pc \in {"opened", "read", "mapped", "xz", "parsed"} => reader.disk
  /\ (reader.load \/ reader.disk) /\ ~(reader.disk /\ Here.vaddr # 0)
       => reader.bias = reader.base - Here.vaddr

(* A table that has not been looked for, or is in the file and whole.      *)
InFile(t) == t \in {NoTable, [in |-> "file", whole |-> TRUE]}

WellPacked == {Here.xz.strtab, Here.xz.symtab} \in {{"none"}, {"in"}}

Held(t) == t.in \in mapped /\ t.whole

TablesInv ==
  /\ pc \in {"idle", "memory", "disk", "opened", "read", "mapped"} =>
       /\ reader.strtab = NoTable
       /\ reader.symtab = NoTable
       /\ mapped = IF pc = "mapped" THEN {"file"} ELSE {}
  /\ pc = "xz" => /\ InFile(reader.strtab) /\ InFile(reader.symtab)
                  /\ Incomplete(reader)
                  /\ mapped = {"file"}
  /\ pc = "parsed" /\ WellPacked =>
       Incomplete(reader) \/ (Held(reader.strtab) /\ Held(reader.symtab))
  /\ pc \in {"idle", "memory", "disk", "opened", "read", "mapped", "xz", "parsed"}
       => ~reader.diskLoad
  /\ TablesAlive

CacheInv == \A i \in reader.cache : i \in DOMAIN DiskSymbols

ReaderInv ==
  ReaderTypeOK /\ CopyInv /\ PhaseInv /\ BiasInv /\ TablesInv /\ CacheInv

-----------------------------------------------------------------------------
(***************************************************************************)
(* The library in the maps that another thread's copy is in.               *)
(***************************************************************************)
LEMMA SeqWithin ==
  ASSUME NEW X, NEW Y, NEW s \in Seq(Y), \A k \in 1 .. Len(s) : s[k] \in X
  PROVE  s \in Seq(X)
BY SeqDef, LenProperties

MapLine == [start : Nat, end : Nat, prot : SUBSET {"r", "w", "x"},
            offset : Nat, inode : Nat, path : Seq(STRING), valid : BOOLEAN]

LEMMA LinesTyped ==
  /\ Lines \in Seq(MapLine)
  /\ Len(Lines) \in Nat /\ DOMAIN Lines = 1 .. Len(Lines)
  /\ \A i \in DOMAIN Lines : Lines[i] \in MapLine
<1>1. Lines \in Seq(MapLine)
  BY ElfReaderAssumption DEF MapLine
<1> QED BY <1>1, LenProperties, ElementOfSeq

LEMMA Inserted ==
  ASSUME NEW X, NEW s \in Seq(X), NEW at \in DOMAIN s, NEW e \in X
  PROVE  /\ InsertAt(s, at, e) \in Seq(X)
         /\ Len(InsertAt(s, at, e)) = Len(s) + 1
         /\ \A k \in 1 .. Len(s) + 1 :
              InsertAt(s, at, e)[k] = IF k < at THEN s[k]
                                      ELSE IF k = at THEN e ELSE s[k - 1]
<1> DEFINE below == SubSeq(s, 1, at - 1)
           above == SubSeq(s, at, Len(s))
<1>1. at \in 1 .. Len(s) /\ Len(s) \in Nat /\ \A k \in 1 .. Len(s) : s[k] \in X
  BY LenProperties, ElementOfSeq
<1>2. /\ below \in Seq(X) /\ Len(below) = at - 1
      /\ \A k \in 1 .. at - 1 : below[k] = s[k]
  <2>1. at - 1 \in Int /\ \A k \in 1 .. at - 1 : s[k] \in X
    BY <1>1
  <2>2. /\ below \in Seq(X)
        /\ Len(below) = IF 1 <= at - 1 THEN (at - 1) - 1 + 1 ELSE 0
        /\ \A k \in 1 .. (at - 1) - 1 + 1 : below[k] = s[1 + k - 1]
    BY <2>1, SubSeqProperties
  <2> HIDE DEF below
  <2> QED BY <1>1, <2>2
<1>3. /\ above \in Seq(X) /\ Len(above) = Len(s) - at + 1
      /\ \A k \in 1 .. Len(s) - at + 1 : above[k] = s[at + k - 1]
  <2>1. at \in Int /\ Len(s) \in Int /\ \A k \in at .. Len(s) : s[k] \in X
    BY <1>1
  <2>2. /\ above \in Seq(X)
        /\ Len(above) = IF at <= Len(s) THEN Len(s) - at + 1 ELSE 0
        /\ \A k \in 1 .. Len(s) - at + 1 : above[k] = s[at + k - 1]
    BY <2>1, SubSeqProperties
  <2> HIDE DEF above
  <2> QED BY <1>1, <2>2
<1>4. InsertAt(s, at, e) = below \o <<e>> \o above
  BY DEF InsertAt
<1> HIDE DEF below, above
<1> DEFINE front == below \o <<e>>
<1>5. /\ front \in Seq(X) /\ Len(front) = at
      /\ \A k \in 1 .. at : front[k] = IF k < at THEN s[k] ELSE e
  <2>1. <<e>> \in Seq(X) /\ Len(<<e>>) = 1 /\ <<e>>[1] = e
    OBVIOUS
  <2>2. /\ front \in Seq(X) /\ Len(front) = Len(below) + Len(<<e>>)
        /\ \A k \in 1 .. Len(below) + Len(<<e>>) :
             front[k] = IF k <= Len(below) THEN below[k] ELSE <<e>>[k - Len(below)]
    BY <1>2, <2>1, ConcatProperties
  <2> HIDE DEF front
  <2>3. Len(below) + Len(<<e>>) = at
    BY <1>1, <1>2, <2>1
  <2>4. ASSUME NEW k \in 1 .. at, k < at PROVE front[k] = s[k]
    <3>1. k \in 1 .. at - 1
      BY <1>1, <2>4
    <3> QED BY <1>1, <1>2, <2>2, <2>3, <2>4, <3>1
  <2>5. ASSUME NEW k \in 1 .. at, ~(k < at) PROVE front[k] = e
    <3>1. k = at /\ ~(k <= Len(below)) /\ k - Len(below) = 1
      BY <1>1, <1>2, <2>5
    <3> QED BY <2>1, <2>2, <2>3, <3>1
  <2> QED BY <2>2, <2>3, <2>4, <2>5
<1> HIDE DEF front
<1>6. /\ front \o above \in Seq(X)
      /\ Len(front \o above) = Len(front) + Len(above)
      /\ \A k \in 1 .. Len(front) + Len(above) :
           (front \o above)[k] = IF k <= Len(front) THEN front[k]
                                 ELSE above[k - Len(front)]
  BY <1>3, <1>5, ConcatProperties
<1>7. InsertAt(s, at, e) = front \o above
  BY <1>4 DEF front
<1>8. Len(front) + Len(above) = Len(s) + 1
  BY <1>1, <1>3, <1>5
<1>9. ASSUME NEW k \in 1 .. Len(s) + 1
      PROVE  (front \o above)[k] = IF k < at THEN s[k]
                                   ELSE IF k = at THEN e ELSE s[k - 1]
  <2>1. CASE k <= at
    BY <1>1, <1>5, <1>6, <1>8, <2>1
  <2>2. CASE k > at
    <3>1. k - at \in 1 .. Len(s) - at + 1 /\ at + (k - at) - 1 = k - 1
      BY <1>1, <2>2
    <3>2. above[k - at] = s[k - 1]
      BY <1>3, <3>1
    <3>3. (front \o above)[k] = above[k - at]
      BY <1>1, <1>5, <1>6, <1>8, <2>2
    <3> QED BY <1>1, <2>2, <3>2, <3>3
  <2>3. k <= at \/ k > at
    BY <1>1
  <2> QED BY ONLY <2>1, <2>2, <2>3
<1> QED BY <1>6, <1>7, <1>8, <1>9

(* A library of this name, base and number is in the maps.                 *)
Based(name, base, inode) ==
  \E i \in DOMAIN Lines :
     /\ Lines[i].start = base
     /\ Lines[i].inode = inode
     /\ MatchPath(Lines[i], name)
     /\ \E j \in i .. Len(Lines) :
          /\ {"x", "w"} \cap Lines[j].prot # {}
          /\ \A k \in i .. j : Lines[k].inode \in {0, inode}

LEMMA SpotInMaps ==
  ASSUME NEW name, NEW f, NEW g, Spot(Lines, name, f, g)
  PROVE  Based(name, Lines[f].start, Lines[f].inode)
<1>1. DOMAIN Lines = 1 .. Len(Lines)
  BY ElfReaderAssumption, LenProperties
<1>2. /\ f \in DOMAIN Lines /\ g \in f .. Len(Lines)
      /\ MatchPath(Lines[f], name)
      /\ {"x", "w"} \cap Lines[g].prot # {}
      /\ \A k \in f .. g : Lines[k].inode \in {0, Lines[f].inode}
  BY <1>1 DEF Spot, Matches
<1> QED BY <1>2 DEF Based

(* The mapping of another thread before a library hides it, if no line of  *)
(* another file is between.                                                *)
LEMMA SpotBelowCopy ==
  ASSUME ReaderTypeOK, CopyInv, copy # NoCopy, NEW name, NEW f, NEW g,
         Spot(CurrentLines, name, f, g)
  PROVE  LET first == CurrentLines[f] IN
         CopyHides(first.inode) \/ Based(name, first.start, first.inode)
<1> DEFINE X == Range(Lines) \cup {CopyLine}
           now(k) == IF k < copy.at THEN Lines[k]
                     ELSE IF k = copy.at THEN CopyLine ELSE Lines[k - 1]
           back(k) == IF k < copy.at THEN k ELSE k - 1
           first == CurrentLines[f]
<1>1. copy.at \in DOMAIN Lines /\ DOMAIN Lines = 1 .. Len(Lines) /\ Len(Lines) \in Nat
  BY ElfReaderAssumption, LenProperties DEF CopyInv
<1>2. Lines \in Seq(X)
  <2>1. \A k \in 1 .. Len(Lines) : Lines[k] \in X
    BY <1>1 DEF Range
  <2> HIDE DEF X
  <2> QED BY <2>1, LinesTyped, SeqWithin
<1>3. /\ Len(CurrentLines) = Len(Lines) + 1
      /\ \A k \in 1 .. Len(Lines) + 1 : CurrentLines[k] = now(k)
  <2>1. CurrentLines = InsertAt(Lines, copy.at, CopyLine)
    BY DEF CurrentLines
  <2>2. CopyLine \in X
    OBVIOUS
  <2> HIDE DEF X
  <2>3. /\ Len(InsertAt(Lines, copy.at, CopyLine)) = Len(Lines) + 1
        /\ \A k \in 1 .. Len(Lines) + 1 :
             InsertAt(Lines, copy.at, CopyLine)[k] = now(k)
    <3> DEFINE at == copy.at  line == CopyLine
    <3>1. at \in DOMAIN Lines /\ line \in X
      BY <1>1, <2>2
    <3> HIDE DEF at, line
    <3>2. /\ Len(InsertAt(Lines, at, line)) = Len(Lines) + 1
          /\ \A k \in 1 .. Len(Lines) + 1 :
               InsertAt(Lines, at, line)[k] =
                 IF k < at THEN Lines[k] ELSE IF k = at THEN line ELSE Lines[k - 1]
      BY <1>2, <3>1, Inserted
    <3> QED BY <3>2 DEF at, line
  <2> QED BY <2>1, <2>3
<1>4. CopyLine.prot = {"r"} /\ CopyLine.inode = copy.inode
  BY DEF CopyLine
<1>5. /\ f \in 1 .. Len(Lines) + 1 /\ g \in f .. Len(Lines) + 1
      /\ MatchPath(first, name)
      /\ CurrentLines[g].prot \cap {"x", "w"} # {}
      /\ CurrentLines[g].inode = first.inode
      /\ \A k \in f .. g : CurrentLines[k].inode \in {0, first.inode}
  BY <1>3 DEF Spot, Matches
<1> HIDE DEF X, first
<1>6. g # copy.at /\ g \in 1 .. Len(Lines) + 1
  <2>1. g \in 1 .. Len(Lines) + 1
    BY <1>1, <1>5
  <2> QED BY <1>1, <1>3, <1>4, <1>5, <2>1
<1>7. back(g) \in DOMAIN Lines /\ CurrentLines[g] = Lines[back(g)]
  BY <1>1, <1>3, <1>6
<1>8. ASSUME NEW k \in copy.at .. back(g), f <= copy.at \/ f <= k + 1
      PROVE  Lines[k].inode \in {0, first.inode}
  <2>1. k + 1 \in f .. g /\ k + 1 \in 1 .. Len(Lines) + 1 /\ k + 1 > copy.at
    BY <1>1, <1>5, <1>6, <1>8
  <2>2. CurrentLines[k + 1] = Lines[k]
    BY <1>1, <1>3, <2>1
  <2> QED BY <1>5, <2>1, <2>2
<1>9. CASE f = copy.at
  <2>1. copy.inode = first.inode
    BY <1>1, <1>3, <1>4, <1>9 DEF first
  <2>2. back(g) >= copy.at
    BY <1>1, <1>5, <1>6, <1>9
  <2>3. \A k \in copy.at .. back(g) : Lines[k].inode \in {0, first.inode}
    BY <1>8, <1>9, <1>1
  <2>4. Lines[back(g)].inode = first.inode
    BY <1>5, <1>7
  <2>5. CopyHides(first.inode)
    <3> HIDE DEF back
    <3> QED BY <1>7, <2>1, <2>2, <2>3, <2>4 DEF CopyHides
  <2> QED BY <2>5 DEF first
<1>10. CASE f # copy.at
  <2>1. /\ back(f) \in DOMAIN Lines /\ first = Lines[back(f)]
        /\ back(g) \in back(f) .. Len(Lines)
    BY <1>1, <1>3, <1>5, <1>6, <1>10 DEF first
  <2>2. ASSUME NEW k \in back(f) .. back(g)
        PROVE  Lines[k].inode \in {0, first.inode}
    <3>1. CASE k < copy.at
      <4>1. k \in f .. g /\ k \in 1 .. Len(Lines) + 1
        BY <1>1, <1>5, <1>6, <1>10, <2>1, <3>1
      <4>2. CurrentLines[k] = Lines[k]
        BY <1>1, <1>3, <3>1, <4>1
      <4> QED BY <1>5, <4>1, <4>2
    <3>2. CASE k >= copy.at
      <4>1. k \in copy.at .. back(g) /\ (f <= copy.at \/ f <= k + 1)
        BY <1>1, <1>5, <1>6, <1>10, <2>1, <3>2
      <4> QED BY <1>8, <4>1
    <3> QED BY <1>1, <1>5, <1>6, <1>10, <2>1, <3>1, <3>2
  <2>3. MatchPath(Lines[back(f)], name) /\ {"x", "w"} \cap Lines[back(g)].prot # {}
    BY <1>5, <1>7, <2>1
  <2>4. Based(name, first.start, first.inode)
    <3> HIDE DEF back
    <3>1. /\ Lines[back(f)].start = first.start
          /\ Lines[back(f)].inode = first.inode
          /\ \E j \in back(f) .. Len(Lines) :
               /\ {"x", "w"} \cap Lines[j].prot # {}
               /\ \A k \in back(f) .. j : Lines[k].inode \in {0, first.inode}
      BY <2>1, <2>2, <2>3
    <3> QED BY <2>1, <2>3, <3>1 DEF Based
  <2> QED BY <2>4 DEF first
<1> QED BY <1>9, <1>10

(* What LoadFromMemory and LoadFromDisk take from the maps.                *)
LEMMA FoundInMaps ==
  ASSUME ReaderTypeOK, CopyInv, NEW name, GetLibraryProtect(CurrentLines, name) # <<>>
  PROVE  LET pages == GetLibraryProtect(CurrentLines, name)
             base == GetLibraryBaseAddress(pages)
             inode == Head(pages).inode
         IN  /\ inode \in DOMAIN Library /\ inode \in Nat
             /\ base \in Int
             /\ CopyHides(inode) \/ Based(name, base, inode)
<1> DEFINE pages == GetLibraryProtect(CurrentLines, name)
           X == Range(Lines) \cup (IF copy = NoCopy THEN {} ELSE {CopyLine})
<1>1. DOMAIN Lines = 1 .. Len(Lines) /\ Len(Lines) \in Nat
  BY ElfReaderAssumption, LenProperties
<1>2. ASSUME NEW i \in DOMAIN Lines
      PROVE  /\ Lines[i].start \in Nat /\ Lines[i].offset \in Nat
             /\ Lines[i].inode # 0 => Lines[i].inode \in DOMAIN Library
  <2>1. Lines[i] \in MapLine
    BY LinesTyped
  <2> QED BY <2>1, ElfReaderAssumption DEF MapLine
<1>3. ASSUME copy # NoCopy
      PROVE  copy.at \in DOMAIN Lines /\ copy.inode \in DOMAIN Library
  BY <1>3, ElfReaderAssumption DEF CopyInv
<1>4. ASSUME NEW x \in X
      PROVE  /\ x.start \in Int /\ x.offset \in Nat
             /\ x.inode # 0 => x.inode \in DOMAIN Library
  <2>1. CASE x \in Range(Lines)
    <3>1. PICK i \in DOMAIN Lines : x = Lines[i]
      BY <2>1 DEF Range
    <3> QED BY <1>2, <3>1
  <2>2. CASE copy # NoCopy /\ x = CopyLine
    <3>1. x.start = Lines[copy.at].start - 1 /\ x.offset = 0 /\ x.inode = copy.inode
      BY <2>2 DEF CopyLine
    <3> QED BY <1>2, <1>3, <2>2, <3>1
  <2> QED BY <2>1, <2>2
<1>5. \A k \in 1 .. Len(Lines) : Lines[k] \in X
  BY <1>1 DEF Range
<1>6. CopyLine \in X \/ copy = NoCopy
  OBVIOUS
<1> HIDE DEF X
<1>7. Lines \in Seq(X)
  BY <1>5, LinesTyped, SeqWithin
<1>8. CurrentLines \in Seq(X)
  <2>1. CASE copy = NoCopy
    BY <1>7, <2>1 DEF CurrentLines
  <2>2. CASE copy # NoCopy
    <3>1. InsertAt(Lines, copy.at, CopyLine) \in Seq(X)
      BY <1>3, <1>6, <1>7, <2>2, Inserted
    <3> QED BY <2>2, <3>1 DEF CurrentLines
  <2> QED BY <2>1, <2>2
<1>9. PICK f, g : /\ Spot(CurrentLines, name, f, g)
                  /\ pages \in Seq(X) /\ pages[1] = CurrentLines[f]
  BY <1>8, ProtectIs
<1> HIDE DEF pages
<1>10. pages # <<>> /\ Head(pages) = pages[1] /\ pages[1] \in X
  <2>1. pages # <<>>
    BY DEF pages
  <2> QED BY <1>9, <2>1, HeadTailProperties, LenProperties, ElementOfSeq
<1>11. pages[1].inode # 0 /\ pages[1].offset = 0
  BY <1>9 DEF Spot, Matches
<1>12. GetLibraryBaseAddress(pages) = pages[1].start
  BY <1>4, <1>9, <1>10, <1>11, BaseIs
<1>13. pages[1].inode \in DOMAIN Library /\ pages[1].inode \in Nat /\ pages[1].start \in Int
  BY <1>4, <1>10, <1>11, ElfReaderAssumption
<1>14. CopyHides(pages[1].inode) \/ Based(name, pages[1].start, pages[1].inode)
  <2>1. CASE copy = NoCopy
    <3>1. CurrentLines = Lines
      BY <2>1 DEF CurrentLines
    <3> QED BY <1>9, <3>1, SpotInMaps
  <2>2. CASE copy # NoCopy
    BY <1>9, <2>2, SpotBelowCopy
  <2> QED BY <2>1, <2>2
<1> QED BY <1>10, <1>12, <1>13, <1>14 DEF pages

-----------------------------------------------------------------------------
(***************************************************************************)
(* What a library is made of.                                              *)
(***************************************************************************)
SymbolRecord == [name : Letters, type : {"func", "object", "other"},
                 size : Nat, value : Nat]

LEMMA LibraryTyped ==
  ASSUME NEW inode \in DOMAIN Library
  PROVE  /\ inode \in Nat
         /\ Library[inode].first \in {"phdr", "load", "none"}
         /\ Library[inode].vaddr \in Nat
         /\ Library[inode].dynsym \in Seq([name : Letters, value : Nat])
         /\ \A i \in DOMAIN Library[inode].dynsym :
              i >= Library[inode].hashed => Library[inode].dynsym[i].value > 0
         /\ Library[inode].plt \in Seq([sym : Nat, slot : Nat])
         /\ {Library[inode].file.strtab, Library[inode].file.symtab,
             Library[inode].xz.strtab, Library[inode].xz.symtab}
              \subseteq {"none", "in", "out"}
         /\ Library[inode].file.sym \in Seq(SymbolRecord)
         /\ Library[inode].xz.sym \in Seq(SymbolRecord)
<1> DEFINE lib == Library[inode]
<1>1. inode \in Nat /\ IsLibrary(lib)
  BY ElfReaderAssumption
<1> HIDE DEF lib
<1>2. ASSUME NEW sections \in {lib.file, lib.xz}
      PROVE  /\ {sections.strtab, sections.symtab} \subseteq {"none", "in", "out"}
             /\ sections.sym \in Seq(SymbolRecord)
  BY <1>1, <1>2 DEF IsLibrary, SymbolRecord
<1>3. /\ lib.first \in {"phdr", "load", "none"}
      /\ lib.vaddr \in Nat
      /\ lib.dynsym \in Seq([name : Letters, value : Nat])
      /\ \A i \in DOMAIN lib.dynsym : i >= lib.hashed => lib.dynsym[i].value > 0
      /\ lib.plt \in Seq([sym : Nat, slot : Nat])
  BY <1>1 DEF IsLibrary
<1> QED BY <1>1, <1>2, <1>3 DEF lib

(* The symbols that section_symtab_addr leads to are those of a library.   *)
LEMMA DiskSymbolsTyped ==
  ASSUME reader.inode \in DOMAIN Library
  PROVE  DiskSymbols \in Seq(SymbolRecord)
BY LibraryTyped DEF DiskSymbols, Here

(* A place in the indices of a sequence, or none of them.                  *)
LEMMA NthInSeq ==
  ASSUME NEW X, NEW s \in Seq(X), NEW set \in SUBSET DOMAIN s, NEW n \in Nat \ {0}
  PROVE  Nth(set, n) \in set \cup {0}
<1>1. Len(s) \in Nat /\ DOMAIN s = 1 .. Len(s)
  BY LenProperties
<1> QED BY <1>1, NthIs

LEMMA LeastInSeq ==
  ASSUME NEW X, NEW s \in Seq(X), NEW set \in SUBSET DOMAIN s
  PROVE  Least(set) \in set \cup {0}
BY NthInSeq DEF Least

-----------------------------------------------------------------------------
(***************************************************************************)
(* The invariant is kept, action by action.                                *)
(***************************************************************************)
ReaderFields ==
  [load : BOOLEAN, disk : BOOLEAN, diskLoad : BOOLEAN, inode : Nat, base : Int,
   bias : Int, strtab : Table, symtab : Table, cache : SUBSET Nat]

Phases == {"idle", "memory", "disk", "opened", "read", "mapped", "xz", "parsed",
           "cache", "find", "process", "result", "done", "fault"}

Requests == [call : {"none", "symbol", "symbols", "load"},
             name : Named \cup {Linker, <<>>}, units : Seq(Units), i : Nat]

Answers == [name : Letters, type : SymbolTypes \cup {"linker"}, address : Int]

LEMMA ReaderTyped ==
  ReaderTypeOK <=>
    /\ copy \in [inode : Nat, at : Nat]
    /\ pc \in Phases
    /\ request \in Requests
    /\ reader \in ReaderFields
    /\ mapped \subseteq {"file", "xz"}
    /\ answers \subseteq Answers
    /\ hidden \in BOOLEAN
BY DEF ReaderTypeOK, Phases, Requests, ReaderFields, Answers

LEMMA ReaderTypedNext ==
  ReaderTypeOK' <=>
    /\ copy' \in [inode : Nat, at : Nat]
    /\ pc' \in Phases
    /\ request' \in Requests
    /\ reader' \in ReaderFields
    /\ mapped' \subseteq {"file", "xz"}
    /\ answers' \subseteq Answers
    /\ hidden' \in BOOLEAN
BY DEF ReaderTypeOK, Phases, Requests, ReaderFields, Answers

LEMMA ReaderInits == ReaderInit => ReaderInv
<1> SUFFICES ASSUME ReaderInit PROVE ReaderInv
  OBVIOUS
<1>1. ReaderTypeOK
  <2>1. NoTable \in Table /\ NoReader \in ReaderFields
    BY DEF NoReader, NoTable, ReaderFields, Table
  <2>2. <<>> \in Seq(Units) /\ NoRequest \in Requests
    BY DEF NoRequest, Requests
  <2> QED BY <2>1, <2>2, ReaderTyped DEF ReaderInit, NoCopy, Phases
<1>2. /\ copy = NoCopy /\ pc = "idle" /\ request = NoRequest
      /\ reader = NoReader /\ mapped = {} /\ answers = {}
  BY DEF ReaderInit
<1>3. CopyInv /\ PhaseInv
  BY <1>2 DEF CopyInv, PhaseInv, NoRequest, NoReader
<1>4. BiasInv /\ CacheInv
  BY <1>2 DEF BiasInv, CacheInv, NoReader
<1>5. TablesInv
  BY <1>2 DEF TablesInv, TablesAlive, NoReader, NoTable
<1> QED BY <1>1, <1>3, <1>4, <1>5 DEF ReaderInv

LEMMA BeginKeeps ==
  ASSUME ReaderInv,
         NEW operation \in {"symbol", "symbols", "load"},
         NEW name \in Named \cup {Linker}, NEW units \in Seq(Units),
         NEW first \in {"memory", "disk", "find"},
         operation = "symbol" => Len(units) = 1,
         operation = "symbols" => units # <<>>,
         Begin(operation, name, units, first)
  PROVE  ReaderInv'
<1>1. ReaderTypeOK /\ CopyInv /\ PhaseInv /\ BiasInv /\ TablesInv /\ CacheInv
  BY DEF ReaderInv
<1>2. /\ pc = "idle" /\ pc' = first
      /\ request' = [call |-> operation, name |-> name, units |-> units, i |-> 0]
      /\ copy' = copy /\ reader' = reader /\ mapped' = mapped
      /\ answers' = answers /\ hidden' = hidden
  BY DEF Begin
<1>3. /\ reader = NoReader /\ answers = {} /\ mapped = {}
  BY <1>1, <1>2 DEF PhaseInv, TablesInv
<1>4. ReaderTypeOK'
  <2>1. request' \in Requests
    BY <1>2 DEF Requests
  <2> QED BY <1>1, <1>2, <2>1, ReaderTyped, ReaderTypedNext DEF Phases
<1>5. CopyInv'
  BY <1>1, <1>2 DEF CopyInv
<1>6. PhaseInv'
  BY <1>2, <1>3 DEF PhaseInv, NoReader
<1>7. BiasInv' /\ CacheInv'
  BY <1>2, <1>3 DEF BiasInv, CacheInv, NoReader
<1>8. TablesInv'
  BY <1>2, <1>3 DEF TablesInv, TablesAlive, NoReader, NoTable
<1> QED BY <1>4, <1>5, <1>6, <1>7, <1>8 DEF ReaderInv

LEMMA OtherMapsKeeps == ReaderInv /\ OtherMaps => ReaderInv'
<1> SUFFICES ASSUME ReaderInv, OtherMaps PROVE ReaderInv'
  OBVIOUS
<1>1. ReaderTypeOK /\ CopyInv /\ PhaseInv /\ BiasInv /\ TablesInv /\ CacheInv
  BY DEF ReaderInv
<1>2. PICK i \in DOMAIN Lines, at \in CopyAt :
         /\ Matches(Lines[i], request.name)
         /\ copy' = [inode |-> Lines[i].inode, at |-> at]
  BY DEF OtherMaps
<1>3. /\ Lines[i].inode \in DOMAIN Library /\ Lines[i].inode \in Nat /\ at \in Nat
  <2>1. Lines[i].inode # 0 /\ Lines[i] \in MapLine
    BY <1>2, LinesTyped DEF Matches
  <2>2. CopyAt \subseteq DOMAIN Lines
    BY ElfReaderAssumption
  <2>3. at \in 1 .. Len(Lines)
    BY <2>2, LinesTyped
  <2>4. Lines[i].inode \in DOMAIN Library
    BY <2>1, ElfReaderAssumption
  <2> QED BY <2>1, <2>3, <2>4, LinesTyped DEF MapLine
<1>4. UNCHANGED <<pc, request, reader, mapped, answers, hidden>>
  BY DEF OtherMaps
<1>5. ReaderTypeOK'
  BY <1>1, <1>2, <1>3, <1>4, ReaderTyped, ReaderTypedNext
<1>6. CopyInv'
  BY <1>2, <1>3 DEF CopyInv
<1>7. PhaseInv' /\ BiasInv' /\ CacheInv'
  BY <1>1, <1>4 DEF PhaseInv, BiasInv, Here, CacheInv, DiskSymbols
<1>8. TablesInv'
  BY <1>1, <1>4 DEF TablesInv, InFile, WellPacked, Held, TablesAlive, Incomplete, Here
<1> QED BY <1>5, <1>6, <1>7, <1>8 DEF ReaderInv

(* What ReadProgramHeadersFromMemory makes of the load bias.               *)
LEMMA HeadersBias ==
  ASSUME NEW inode \in DOMAIN Library, NEW pages, NEW base \in Int
  PROVE  LET headers == ReadProgramHeadersFromMemory(Library[inode], pages, base) IN
         /\ headers.ok \in BOOLEAN
         /\ headers.bias \in Int
         /\ headers.ok => headers.bias = base - Library[inode].vaddr
<1> DEFINE lib == Library[inode]
           headers == ReadProgramHeadersFromMemory(lib, pages, base)
<1>1. lib.first \in {"phdr", "load", "none"} /\ lib.vaddr \in Nat
  BY LibraryTyped
<1> HIDE DEF lib
<1>2. \/ headers = [ok |-> FALSE, bias |-> 0]
      \/ headers = [ok |-> lib.vaddr = 0, bias |-> base]
      \/ headers = [ok |-> lib.first = "load", bias |-> base - lib.vaddr]
  BY Zenon DEF ReadProgramHeadersFromMemory
<1>3. base - 0 = base /\ base - lib.vaddr \in Int
  BY <1>1
<1> HIDE DEF headers
<1>4. /\ headers.ok \in BOOLEAN /\ headers.bias \in Int
      /\ headers.ok => headers.bias = base - lib.vaddr
  <2>1. CASE headers = [ok |-> FALSE, bias |-> 0]
    BY <2>1
  <2>2. CASE headers = [ok |-> lib.vaddr = 0, bias |-> base]
    <3>1. headers.ok = (lib.vaddr = 0) /\ headers.bias = base
      BY <2>2, Zenon
    <3> QED BY <1>3, <3>1
  <2>3. CASE headers = [ok |-> lib.first = "load", bias |-> base - lib.vaddr]
    <3>1. headers.ok = (lib.first = "load") /\ headers.bias = base - lib.vaddr
      BY <2>3, Zenon
    <3> QED BY <1>3, <3>1
  <2> QED BY <1>2, <2>1, <2>2, <2>3
<1> QED BY <1>4 DEF headers, lib

LEMMA LoadFromMemoryKeeps == ReaderInv /\ LoadFromMemory => ReaderInv'
<1> DEFINE pages == GetLibraryProtect(CurrentLines, request.name)
           base == GetLibraryBaseAddress(pages)
           inode == Head(pages).inode
           headers == ReadProgramHeadersFromMemory(Library[inode], pages, base)
<1> SUFFICES ASSUME ReaderInv, LoadFromMemory PROVE ReaderInv'
  OBVIOUS
<1>1. ReaderTypeOK /\ CopyInv /\ PhaseInv /\ BiasInv /\ TablesInv /\ CacheInv
  BY DEF ReaderInv
<1>2. /\ pc = "memory" /\ pc' \in {"disk", "find"}
      /\ UNCHANGED <<copy, request, mapped, answers>>
  BY DEF LoadFromMemory
<1>3. reader = NoReader /\ mapped = {} /\ answers = {}
  BY <1>1, <1>2 DEF PhaseInv, TablesInv
<1>4. /\ reader' \in ReaderFields
      /\ reader'.disk = FALSE /\ reader'.diskLoad = FALSE /\ reader'.cache = {}
      /\ reader'.strtab = NoTable /\ reader'.symtab = NoTable
      /\ reader'.load => /\ reader'.inode \in DOMAIN Library
                         /\ reader'.bias = reader'.base - Library[reader'.inode].vaddr
      /\ hidden' \in BOOLEAN
  <2>1. CASE pages = <<>>
    <3>1. reader' = reader /\ hidden' = hidden
      BY <2>1 DEF LoadFromMemory
    <3> QED BY <1>1, <1>3, <3>1, ReaderTyped DEF NoReader
  <2>2. CASE pages # <<>>
    <3>1. inode \in DOMAIN Library /\ inode \in Nat /\ base \in Int
      BY <1>1, <2>2, FoundInMaps
    <3>2. /\ headers.ok \in BOOLEAN /\ headers.bias \in Int
          /\ headers.ok => headers.bias = base - Library[inode].vaddr
      BY <3>1, HeadersBias
    <3> DEFINE loads == headers.ok /\ ReadDynamicSectionFromMemory(Library[inode])
    <3>3. /\ reader' = [reader EXCEPT !.inode = inode, !.base = base,
                                      !.bias = headers.bias, !.load = loads]
          /\ hidden' = CopyHides(inode)
      BY <2>2 DEF LoadFromMemory
    <3>4. loads \in BOOLEAN /\ CopyHides(inode) \in BOOLEAN /\ (loads => headers.ok)
      BY DEF CopyHides
    <3> HIDE DEF pages, base, inode, headers, loads
    <3>5. reader \in ReaderFields
      BY <1>1, ReaderTyped
    <3>6. /\ reader' \in ReaderFields
          /\ reader'.load = loads /\ reader'.inode = inode
          /\ reader'.base = base /\ reader'.bias = headers.bias
      BY <3>1, <3>2, <3>3, <3>4, <3>5 DEF ReaderFields
    <3>7. /\ reader'.disk = FALSE /\ reader'.diskLoad = FALSE /\ reader'.cache = {}
          /\ reader'.strtab = NoTable /\ reader'.symtab = NoTable
      BY <1>3, <3>3, <3>5 DEF ReaderFields, NoReader
    <3> QED BY <3>1, <3>2, <3>3, <3>4, <3>6, <3>7
  <2> QED BY <2>1, <2>2
<1> HIDE DEF pages, base, inode, headers
<1>5. ReaderTypeOK'
  BY <1>1, <1>2, <1>4, ReaderTyped, ReaderTypedNext DEF Phases
<1>6. CopyInv'
  BY <1>1, <1>2 DEF CopyInv
<1>7. PhaseInv'
  BY <1>1, <1>2, <1>3, <1>4 DEF PhaseInv
<1>8. BiasInv'
  BY <1>2, <1>4 DEF BiasInv, Here
<1>9. TablesInv' /\ CacheInv'
  BY <1>2, <1>3, <1>4 DEF TablesInv, TablesAlive, CacheInv
<1> QED BY <1>5, <1>6, <1>7, <1>8, <1>9 DEF ReaderInv

LEMMA LoadFromDiskKeeps == ReaderInv /\ LoadFromDisk => ReaderInv'
<1> DEFINE pages == GetLibraryProtect(CurrentLines, request.name)
           base == GetLibraryBaseAddress(pages)
           inode == Head(pages).inode
<1> SUFFICES ASSUME ReaderInv, LoadFromDisk PROVE ReaderInv'
  OBVIOUS
<1>1. ReaderTypeOK /\ CopyInv /\ PhaseInv /\ BiasInv /\ TablesInv /\ CacheInv
  BY DEF ReaderInv
<1>2. pc = "disk" /\ UNCHANGED <<copy, request, mapped, answers>>
  BY DEF LoadFromDisk
<1>3. /\ reader.strtab = NoTable /\ reader.symtab = NoTable
      /\ ~reader.diskLoad /\ reader.cache = {} /\ mapped = {} /\ answers = {}
  BY <1>1, <1>2 DEF PhaseInv, TablesInv
<1>4. Failed \in {"done", "find"}
  BY DEF Failed
<1>5. CASE pages = <<>>
  <2>1. pc' = Failed /\ UNCHANGED <<reader, hidden>>
    BY <1>5 DEF LoadFromDisk
  <2>2. ReaderTypeOK'
    BY <1>1, <1>2, <1>4, <2>1, ReaderTyped, ReaderTypedNext DEF Phases
  <2>3. CopyInv' /\ PhaseInv'
    BY <1>1, <1>2, <1>3, <1>4, <2>1 DEF CopyInv, PhaseInv
  <2>4. BiasInv' /\ CacheInv'
    BY <1>1, <1>2, <1>3, <1>4, <2>1 DEF BiasInv, CacheInv, Here
  <2>5. TablesInv'
    BY <1>2, <1>3, <1>4, <2>1 DEF TablesInv, TablesAlive
  <2> QED BY <2>2, <2>3, <2>4, <2>5 DEF ReaderInv
<1>6. CASE pages # <<>>
  <2>1. inode \in DOMAIN Library /\ inode \in Nat /\ base \in Int
    BY <1>1, <1>6, FoundInMaps
  <2>2. /\ reader' = [reader EXCEPT !.disk = TRUE, !.inode = inode,
                                    !.base = base, !.bias = base]
        /\ hidden' = CopyHides(inode) /\ pc' \in {"opened", Failed}
    BY <1>6 DEF LoadFromDisk
  <2> HIDE DEF pages, base, inode
  <2>3. /\ reader'.load = reader.load /\ reader'.inode = inode
        /\ reader'.base = base /\ reader'.bias = base
        /\ reader'.disk /\ ~reader'.diskLoad /\ reader'.cache = {}
        /\ reader'.strtab = NoTable /\ reader'.symtab = NoTable
        /\ reader' \in ReaderFields
    BY <1>1, <1>3, <2>1, <2>2, ReaderTyped DEF ReaderFields
  <2>4. ReaderTypeOK'
    <3>1. hidden' \in BOOLEAN /\ pc' \in Phases
      BY <1>4, <2>2 DEF CopyHides, Phases
    <3> QED BY <1>1, <1>2, <2>3, <3>1, ReaderTyped, ReaderTypedNext
  <2>5. CopyInv'
    BY <1>1, <1>2 DEF CopyInv
  <2>6. PhaseInv'
    BY <1>1, <1>2, <1>3, <1>4, <2>2, <2>3 DEF PhaseInv
  <2>7. BiasInv'
    <3>1. base - 0 = base
      BY <2>1
    <3> QED BY <1>4, <2>1, <2>2, <2>3, <3>1 DEF BiasInv, Here
  <2>8. TablesInv' /\ CacheInv'
    BY <1>2, <1>3, <1>4, <2>2, <2>3 DEF TablesInv, TablesAlive, CacheInv
  <2> QED BY <2>4, <2>5, <2>6, <2>7, <2>8 DEF ReaderInv
<1> QED BY <1>5, <1>6

LEMMA OtherUnmapsKeeps == ReaderInv /\ OtherUnmaps => ReaderInv'
<1> SUFFICES ASSUME ReaderInv, OtherUnmaps PROVE ReaderInv'
  OBVIOUS
<1>1. ReaderTypeOK /\ CopyInv /\ PhaseInv /\ BiasInv /\ TablesInv /\ CacheInv
  BY DEF ReaderInv
<1>2. ReaderTypeOK'
  BY <1>1, ReaderTyped, ReaderTypedNext DEF OtherUnmaps, NoCopy, Phases
<1>3. CopyInv'
  BY <1>1 DEF OtherUnmaps, NoCopy, CopyInv
<1>4. PhaseInv'
  BY <1>1 DEF OtherUnmaps, NoCopy, PhaseInv, ReaderTypeOK
<1>5. BiasInv'
  BY <1>1 DEF OtherUnmaps, NoCopy, BiasInv, Here, ReaderTypeOK
<1>6. TablesInv'
  BY <1>1 DEF OtherUnmaps, NoCopy, TablesInv, InFile, WellPacked, Held,
               TablesAlive, Incomplete, Here, ReaderTypeOK
<1>7. CacheInv'
  BY <1>1 DEF OtherUnmaps, NoCopy, CacheInv, DiskSymbols, Here, ReaderTypeOK
<1> QED BY <1>2, <1>3, <1>4, <1>5, <1>6, <1>7 DEF ReaderInv

LEMMA ReadFormDiskKeeps == ReaderInv /\ ReadFormDisk => ReaderInv'
<1> SUFFICES ASSUME ReaderInv, ReadFormDisk PROVE ReaderInv'
  OBVIOUS
<1>1. ReaderTypeOK /\ CopyInv /\ PhaseInv /\ BiasInv /\ TablesInv /\ CacheInv
  BY DEF ReaderInv
<1>2. ReaderTypeOK'
  BY <1>1, ReaderTyped, ReaderTypedNext DEF ReadFormDisk, Failed, Phases
<1>3. CopyInv'
  BY <1>1 DEF ReadFormDisk, Failed, CopyInv
<1>4. PhaseInv'
  BY <1>1 DEF ReadFormDisk, Failed, PhaseInv, ReaderTypeOK
<1>5. BiasInv'
  BY <1>1 DEF ReadFormDisk, Failed, BiasInv, Here, ReaderTypeOK
<1>6. TablesInv'
  BY <1>1 DEF ReadFormDisk, Failed, TablesInv, InFile, WellPacked, Held,
               TablesAlive, Incomplete, Here, ReaderTypeOK
<1>7. CacheInv'
  BY <1>1 DEF ReadFormDisk, Failed, CacheInv, DiskSymbols, Here, ReaderTypeOK
<1> QED BY <1>2, <1>3, <1>4, <1>5, <1>6, <1>7 DEF ReaderInv

LEMMA MapFileKeeps == ReaderInv /\ MapFile => ReaderInv'
<1> SUFFICES ASSUME ReaderInv, MapFile PROVE ReaderInv'
  OBVIOUS
<1>1. ReaderTypeOK /\ CopyInv /\ PhaseInv /\ BiasInv /\ TablesInv /\ CacheInv
  BY DEF ReaderInv
<1>2. ReaderTypeOK'
  <2>1. mapped' \subseteq {"file", "xz"}
    BY <1>1 DEF MapFile, ReaderTypeOK
  <2>2. pc' \in Phases /\ UNCHANGED <<copy, request, reader, answers, hidden>>
    BY DEF MapFile, Failed, Phases
  <2> QED BY <1>1, <2>1, <2>2, ReaderTyped, ReaderTypedNext
<1>3. CopyInv'
  BY <1>1 DEF MapFile, Failed, CopyInv
<1>4. PhaseInv'
  BY <1>1 DEF MapFile, Failed, PhaseInv, ReaderTypeOK
<1>5. BiasInv'
  BY <1>1 DEF MapFile, Failed, BiasInv, Here, ReaderTypeOK
<1>6. TablesInv'
  BY <1>1 DEF MapFile, Failed, TablesInv, InFile, WellPacked, Held,
               TablesAlive, Incomplete, Here, ReaderTypeOK
<1>7. CacheInv'
  BY <1>1 DEF MapFile, Failed, CacheInv, DiskSymbols, Here, ReaderTypeOK
<1> QED BY <1>2, <1>3, <1>4, <1>5, <1>6, <1>7 DEF ReaderInv

LEMMA LoadedFromDiskKeeps == ReaderInv /\ LoadedFromDisk => ReaderInv'
<1> SUFFICES ASSUME ReaderInv, LoadedFromDisk PROVE ReaderInv'
  OBVIOUS
<1>1. ReaderTypeOK /\ CopyInv /\ PhaseInv /\ BiasInv /\ TablesInv /\ CacheInv
  BY DEF ReaderInv
<1>2. ReaderTypeOK'
  <2>1. reader' \in ReaderFields
    BY <1>1, ReaderTyped DEF LoadedFromDisk, ReaderFields
  <2>2. /\ pc' \in Phases
        /\ UNCHANGED <<copy, request, mapped, answers, hidden>>
    BY DEF LoadedFromDisk, Failed, Phases
  <2> QED BY <1>1, <2>1, <2>2, ReaderTyped, ReaderTypedNext
<1>3. CopyInv'
  BY <1>1 DEF LoadedFromDisk, Failed, Incomplete, CopyInv
<1>4. PhaseInv'
  BY <1>1 DEF LoadedFromDisk, Failed, Incomplete, PhaseInv, ReaderTypeOK
<1>5. BiasInv'
  BY <1>1 DEF LoadedFromDisk, Failed, Incomplete, BiasInv, Here, ReaderTypeOK
<1>6. TablesInv'
  BY <1>1 DEF LoadedFromDisk, Failed, Incomplete, TablesInv, InFile, WellPacked, Held,
               TablesAlive, Incomplete, Here, ReaderTypeOK
<1>7. CacheInv'
  BY <1>1 DEF LoadedFromDisk, Failed, Incomplete, CacheInv, DiskSymbols, Here, ReaderTypeOK
<1> QED BY <1>2, <1>3, <1>4, <1>5, <1>6, <1>7 DEF ReaderInv

LEMMA CacheInternalSymbolsKeeps == ReaderInv /\ CacheInternalSymbols => ReaderInv'
<1> SUFFICES ASSUME ReaderInv, CacheInternalSymbols PROVE ReaderInv'
  OBVIOUS
<1>1. ReaderTypeOK /\ CopyInv /\ PhaseInv /\ BiasInv /\ TablesInv /\ CacheInv
  BY DEF ReaderInv
<1>2. ReaderTypeOK'
  <2>1. DOMAIN DiskSymbols \subseteq Nat
    BY <1>1, DiskSymbolsTyped, LenProperties DEF CacheInternalSymbols, BiasInv
  <2>2. PICK cached \in SUBSET DOMAIN DiskSymbols :
           reader' = [reader EXCEPT !.cache = cached]
    BY DEF CacheInternalSymbols
  <2>3. reader' \in ReaderFields
    BY <1>1, <2>1, <2>2, ReaderTyped DEF ReaderFields
  <2>4. /\ pc' \in Phases
        /\ UNCHANGED <<copy, request, mapped, answers, hidden>>
    BY DEF CacheInternalSymbols, Phases
  <2> QED BY <1>1, <2>3, <2>4, ReaderTyped, ReaderTypedNext
<1>3. CopyInv'
  BY <1>1 DEF CacheInternalSymbols, CopyInv
<1>4. PhaseInv'
  BY <1>1 DEF CacheInternalSymbols, PhaseInv, ReaderTypeOK
<1>5. BiasInv'
  BY <1>1 DEF CacheInternalSymbols, BiasInv, Here, ReaderTypeOK
<1>6. TablesInv'
  BY <1>1 DEF CacheInternalSymbols, TablesInv, InFile, WellPacked, Held,
               TablesAlive, Incomplete, Here, ReaderTypeOK
<1>7. CacheInv'
  BY <1>1 DEF CacheInternalSymbols, CacheInv, DiskSymbols, Here, ReaderTypeOK
<1> QED BY <1>2, <1>3, <1>4, <1>5, <1>6, <1>7 DEF ReaderInv

LEMMA ResultKeeps == ReaderInv /\ Result => ReaderInv'
<1> SUFFICES ASSUME ReaderInv, Result PROVE ReaderInv'
  OBVIOUS
<1>1. ReaderTypeOK /\ CopyInv /\ PhaseInv /\ BiasInv /\ TablesInv /\ CacheInv
  BY DEF ReaderInv
<1>2. ReaderTypeOK'
  <2>1. request' \in Requests
    BY <1>1, ReaderTyped DEF Result, Requests
  <2>2. /\ pc' \in Phases
        /\ UNCHANGED <<copy, reader, mapped, answers, hidden>>
    BY DEF Result, Phases
  <2> QED BY <1>1, <2>1, <2>2, ReaderTyped, ReaderTypedNext
<1>3. CopyInv'
  BY <1>1 DEF Result, CopyInv
<1>4. PhaseInv'
  BY <1>1 DEF Result, PhaseInv, ReaderTypeOK
<1>5. BiasInv'
  BY <1>1 DEF Result, BiasInv, Here, ReaderTypeOK
<1>6. TablesInv'
  BY <1>1 DEF Result, TablesInv, InFile, WellPacked, Held,
               TablesAlive, Incomplete, Here, ReaderTypeOK
<1>7. CacheInv'
  BY <1>1 DEF Result, CacheInv, DiskSymbols, Here, ReaderTypeOK
<1> QED BY <1>2, <1>3, <1>4, <1>5, <1>6, <1>7 DEF ReaderInv

LEMMA LoadSymbolDoneKeeps == ReaderInv /\ LoadSymbolDone => ReaderInv'
<1> SUFFICES ASSUME ReaderInv, LoadSymbolDone PROVE ReaderInv'
  OBVIOUS
<1>1. ReaderTypeOK /\ CopyInv /\ PhaseInv /\ BiasInv /\ TablesInv /\ CacheInv
  BY DEF ReaderInv
<1>2. ReaderTypeOK'
  BY <1>1, ReaderTyped, ReaderTypedNext DEF LoadSymbolDone, Phases
<1>3. CopyInv'
  BY <1>1 DEF LoadSymbolDone, CopyInv
<1>4. PhaseInv'
  BY <1>1 DEF LoadSymbolDone, PhaseInv, ReaderTypeOK
<1>5. BiasInv'
  BY <1>1 DEF LoadSymbolDone, BiasInv, Here, ReaderTypeOK
<1>6. TablesInv'
  BY <1>1 DEF LoadSymbolDone, TablesInv, InFile, WellPacked, Held,
               TablesAlive, Incomplete, Here, ReaderTypeOK
<1>7. CacheInv'
  BY <1>1 DEF LoadSymbolDone, CacheInv, DiskSymbols, Here, ReaderTypeOK
<1> QED BY <1>2, <1>3, <1>4, <1>5, <1>6, <1>7 DEF ReaderInv

LEMMA DestroyKeeps == ReaderInv /\ Destroy => ReaderInv'
<1> SUFFICES ASSUME ReaderInv, Destroy PROVE ReaderInv'
  OBVIOUS
<1>1. ReaderTypeOK /\ CopyInv
  BY DEF ReaderInv
<1>2. /\ pc' = "idle" /\ request' = NoRequest /\ reader' = NoReader /\ mapped' = {}
      /\ answers' = {} /\ hidden' = FALSE /\ copy' = copy
  BY DEF Destroy
<1>3. ReaderTypeOK'
  <2>1. NoTable \in Table /\ NoReader \in ReaderFields
    BY DEF NoReader, NoTable, ReaderFields, Table
  <2>2. <<>> \in Seq(Units) /\ NoRequest \in Requests
    BY DEF NoRequest, Requests
  <2> QED BY <1>1, <1>2, <2>1, <2>2, ReaderTyped, ReaderTypedNext DEF Phases
<1>4. CopyInv' /\ PhaseInv'
  BY <1>1, <1>2 DEF CopyInv, PhaseInv, NoRequest, NoReader
<1>5. BiasInv' /\ CacheInv'
  BY <1>2 DEF BiasInv, CacheInv, NoReader
<1>6. TablesInv'
  BY <1>2 DEF TablesInv, TablesAlive, NoReader, NoTable
<1> QED BY <1>3, <1>4, <1>5, <1>6 DEF ReaderInv

(* ParseSection sets the two tables and nothing else.                      *)
LEMMA ParseSectionSets ==
  ASSUME ReaderTypeOK, NEW sections, NEW in \in {"file", "xz"}, NEW names \in BOOLEAN,
         {sections.strtab, sections.symtab} \subseteq {"none", "in", "out"}
  PROVE  LET parsed == ParseSection(sections, in, names) IN
         /\ parsed \in ReaderFields
         /\ parsed.load = reader.load /\ parsed.disk = reader.disk
         /\ parsed.diskLoad = reader.diskLoad /\ parsed.inode = reader.inode
         /\ parsed.base = reader.base /\ parsed.bias = reader.bias
         /\ parsed.cache = reader.cache
         /\ parsed.symtab = IF sections.symtab = "none" THEN reader.symtab
                            ELSE [in |-> in, whole |-> sections.symtab = "in"]
         /\ parsed.strtab = IF ~names \/ sections.strtab = "none" \/ sections.symtab = "out"
                            THEN reader.strtab
                            ELSE [in |-> in, whole |-> sections.strtab = "in"]
<1>1. reader \in ReaderFields
  BY ReaderTyped
<1>2. PICK symtab \in Table :
         symtab = IF sections.symtab = "none" THEN reader.symtab
                  ELSE [in |-> in, whole |-> sections.symtab = "in"]
  BY <1>1 DEF ReaderFields, Table
<1>3. PICK strtab \in Table :
         strtab = IF ~names \/ sections.strtab = "none" \/ sections.symtab = "out"
                  THEN reader.strtab
                  ELSE [in |-> in, whole |-> sections.strtab = "in"]
  BY <1>1 DEF ReaderFields, Table
<1>4. ParseSection(sections, in, names) =
        [reader EXCEPT !.symtab = symtab, !.strtab = strtab]
  BY <1>1, <1>2, <1>3 DEF ParseSection, ReaderFields
<1> QED BY <1>1, <1>2, <1>3, <1>4 DEF ReaderFields

LEMMA ParseFileKeeps == ReaderInv /\ ParseFile => ReaderInv'
<1> DEFINE names == ~("shstrndx" \in Here.defects)
<1> SUFFICES ASSUME ReaderInv, ParseFile PROVE ReaderInv'
  OBVIOUS
<1>1. ReaderTypeOK /\ CopyInv /\ PhaseInv /\ BiasInv /\ TablesInv /\ CacheInv
  BY DEF ReaderInv
<1>2. /\ pc = "mapped" /\ UNCHANGED <<copy, request, mapped, answers, hidden>>
      /\ reader' = ParseSection(Here.file, "file", names)
      /\ pc' = IF ~InRangeOf(Here.file, names) THEN Failed
               ELSE IF Incomplete(reader') /\ names /\ Here.debugdata # "none"
                 THEN "xz"
               ELSE "parsed"
  BY DEF ParseFile
<1>3. names \in BOOLEAN
  OBVIOUS
<1> HIDE DEF names
<1>4. /\ reader.strtab = NoTable /\ reader.symtab = NoTable /\ mapped = {"file"}
      /\ ~reader.diskLoad /\ reader.cache = {} /\ answers = {} /\ reader.disk
      /\ reader.inode \in DOMAIN Library
  BY <1>1, <1>2 DEF PhaseInv, BiasInv, TablesInv
<1>5. {Here.file.strtab, Here.file.symtab} \subseteq {"none", "in", "out"}
  BY <1>4, LibraryTyped DEF Here
<1>6. /\ reader' \in ReaderFields
      /\ reader'.load = reader.load /\ reader'.disk /\ ~reader'.diskLoad
      /\ reader'.inode = reader.inode /\ reader'.base = reader.base
      /\ reader'.bias = reader.bias /\ reader'.cache = {}
      /\ reader'.symtab = IF Here.file.symtab = "none" THEN NoTable
                          ELSE [in |-> "file", whole |-> Here.file.symtab = "in"]
      /\ reader'.strtab =
           IF ~names \/ Here.file.strtab = "none" \/ Here.file.symtab = "out"
           THEN NoTable ELSE [in |-> "file", whole |-> Here.file.strtab = "in"]
  <2> DEFINE sections == Here.file
  <2>1. {sections.strtab, sections.symtab} \subseteq {"none", "in", "out"}
    BY <1>5
  <2> HIDE DEF sections
  <2>2. /\ reader' \in ReaderFields
        /\ reader'.load = reader.load /\ reader'.disk = reader.disk
        /\ reader'.diskLoad = reader.diskLoad /\ reader'.inode = reader.inode
        /\ reader'.base = reader.base /\ reader'.bias = reader.bias
        /\ reader'.cache = reader.cache
        /\ reader'.symtab = IF sections.symtab = "none" THEN reader.symtab
                            ELSE [in |-> "file", whole |-> sections.symtab = "in"]
        /\ reader'.strtab =
             IF ~names \/ sections.strtab = "none" \/ sections.symtab = "out"
             THEN reader.strtab
             ELSE [in |-> "file", whole |-> sections.strtab = "in"]
    <3>1. reader' = ParseSection(sections, "file", names)
      BY <1>2 DEF sections
    <3> QED BY <1>1, <1>3, <2>1, <3>1, ParseSectionSets
  <2> QED BY <1>4, <2>2, Zenon DEF sections
<1>7. pc' \in {"done", "find", "xz", "parsed"}
  BY <1>2 DEF Failed
<1>8. ReaderTypeOK'
  BY <1>1, <1>2, <1>6, <1>7, ReaderTyped, ReaderTypedNext DEF Phases
<1>9. CopyInv' /\ PhaseInv'
  BY <1>1, <1>2, <1>4, <1>6, <1>7 DEF CopyInv, PhaseInv
<1>10. BiasInv' /\ CacheInv'
  BY <1>1, <1>4, <1>6, <1>7 DEF BiasInv, Here, CacheInv
<1>11. CASE ~InRangeOf(Here.file, names)
  <2>1. pc' \in {"done", "find"}
    BY <1>2, <1>11 DEF Failed
  <2>2. TablesInv'
    BY <1>6, <2>1 DEF TablesInv, TablesAlive
  <2> QED BY <1>8, <1>9, <1>10, <2>2 DEF ReaderInv
<1>12. CASE InRangeOf(Here.file, names)
  <2>1. InFile(reader'.symtab) /\ InFile(reader'.strtab)
    BY <1>5, <1>6, <1>12 DEF InRangeOf, InFile
  <2>2. (pc' = "xz" /\ Incomplete(reader')) \/ pc' = "parsed"
    BY <1>2, <1>12
  <2>3. ~Incomplete(reader') => Held(reader.symtab)' /\ Held(reader.strtab)'
    BY <1>2, <1>4, <2>1 DEF InFile, Incomplete, Held, NoTable
  <2>4. mapped' = {"file"}
    BY <1>2, <1>4
  <2>5. TablesInv'
    <3>1. /\ InFile(reader.symtab)' /\ InFile(reader.strtab)'
          /\ Incomplete(reader)' <=> Incomplete(reader')
      BY <2>1 DEF InFile, Incomplete
    <3> QED BY <1>6, <2>2, <2>3, <2>4, <3>1 DEF TablesInv, TablesAlive
  <2> QED BY <1>8, <1>9, <1>10, <2>5 DEF ReaderInv
<1> QED BY <1>11, <1>12

LEMMA WholeTable ==
  ASSUME NEW t, NEW in, NEW sections, t = [in |-> in, whole |-> sections = "in"],
         sections = "in"
  PROVE  t.in = in /\ t.whole
<1>1. t.whole = (sections = "in")
  OBVIOUS
<1> QED BY <1>1

LEMMA DecompressDebugDataKeeps == ReaderInv /\ DecompressDebugData => ReaderInv'
<1> SUFFICES ASSUME ReaderInv, DecompressDebugData PROVE ReaderInv'
  OBVIOUS
<1>1. ReaderTypeOK /\ CopyInv /\ PhaseInv /\ BiasInv /\ TablesInv /\ CacheInv
  BY DEF ReaderInv
<1>2. /\ pc = "xz" /\ pc' = "parsed" /\ UNCHANGED <<copy, request, answers, hidden>>
  BY DEF DecompressDebugData
<1>3. /\ mapped = {"file"} /\ ~reader.diskLoad /\ reader.cache = {} /\ answers = {}
      /\ reader.disk /\ reader.inode \in DOMAIN Library /\ Incomplete(reader)
  BY <1>1, <1>2 DEF PhaseInv, BiasInv, TablesInv
<1>4. CASE UNCHANGED <<reader, mapped>>
  <2>1. ReaderTypeOK'
    BY <1>1, <1>2, <1>4, ReaderTyped, ReaderTypedNext DEF Phases
  <2>2. CopyInv' /\ PhaseInv'
    BY <1>1, <1>2, <1>3, <1>4 DEF CopyInv, PhaseInv
  <2>3. BiasInv' /\ CacheInv'
    BY <1>1, <1>2, <1>3, <1>4 DEF BiasInv, Here, CacheInv
  <2>4. TablesInv'
    BY <1>2, <1>3, <1>4 DEF TablesInv, TablesAlive, Incomplete
  <2> QED BY <2>1, <2>2, <2>3, <2>4 DEF ReaderInv
<1>5. CASE /\ reader' = ParseSection(Here.xz, "xz", TRUE)
           /\ mapped' = IF InRangeOf(Here.xz, TRUE) THEN {"xz"} ELSE {"file", "xz"}
  <2>1. {Here.xz.strtab, Here.xz.symtab} \subseteq {"none", "in", "out"}
    BY <1>3, LibraryTyped DEF Here
  <2>2. /\ reader' \in ReaderFields
        /\ reader'.load = reader.load /\ reader'.disk /\ ~reader'.diskLoad
        /\ reader'.inode = reader.inode /\ reader'.base = reader.base
        /\ reader'.bias = reader.bias /\ reader'.cache = {}
        /\ reader'.symtab = IF Here.xz.symtab = "none" THEN reader.symtab
                            ELSE [in |-> "xz", whole |-> Here.xz.symtab = "in"]
        /\ reader'.strtab = IF Here.xz.strtab = "none" \/ Here.xz.symtab = "out"
                            THEN reader.strtab
                            ELSE [in |-> "xz", whole |-> Here.xz.strtab = "in"]
    BY <1>1, <1>3, <1>5, <2>1, ParseSectionSets
  <2>3. ReaderTypeOK'
    <3>1. mapped' \subseteq {"file", "xz"}
      BY <1>5
    <3> QED BY <1>1, <1>2, <2>2, <3>1, ReaderTyped, ReaderTypedNext DEF Phases
  <2>4. CopyInv' /\ PhaseInv'
    BY <1>1, <1>2, <1>3, <2>2 DEF CopyInv, PhaseInv
  <2>5. BiasInv' /\ CacheInv'
    BY <1>1, <1>2, <1>3, <2>2 DEF BiasInv, Here, CacheInv
  <2>6. ASSUME {Here.xz.strtab, Here.xz.symtab} = {"none"}
        PROVE  Incomplete(reader)'
    <3>1. Here.xz.strtab = "none" /\ Here.xz.symtab = "none"
      BY <2>6
    <3> QED BY <1>3, <2>2, <3>1 DEF Incomplete
  <2>7. ASSUME {Here.xz.strtab, Here.xz.symtab} = {"in"}
        PROVE  Held(reader.strtab)' /\ Held(reader.symtab)'
    <3>1. Here.xz.strtab = "in" /\ Here.xz.symtab = "in"
      BY <2>7
    <3>2. mapped' = {"xz"}
      BY <1>5, <3>1 DEF InRangeOf
    <3>3. /\ reader'.strtab = [in |-> "xz", whole |-> Here.xz.strtab = "in"]
          /\ reader'.symtab = [in |-> "xz", whole |-> Here.xz.symtab = "in"]
      BY <2>2, <3>1
    <3>4. /\ reader'.strtab.in = "xz" /\ reader'.strtab.whole
          /\ reader'.symtab.in = "xz" /\ reader'.symtab.whole
      BY <3>1, <3>3, WholeTable
    <3> QED BY <3>2, <3>4 DEF Held
  <2>8. TablesInv'
    <3>1. WellPacked' <=> WellPacked
      BY <2>2 DEF WellPacked, Here
    <3>2. WellPacked => \/ Incomplete(reader)'
                        \/ Held(reader.strtab)' /\ Held(reader.symtab)'
      BY <2>6, <2>7 DEF WellPacked
    <3> QED BY <1>2, <2>2, <3>1, <3>2 DEF TablesInv, TablesAlive
  <2> QED BY <2>3, <2>4, <2>5, <2>8 DEF ReaderInv
<1> QED BY <1>4, <1>5 DEF DecompressDebugData

-----------------------------------------------------------------------------
(***************************************************************************)
(* What the lookups find.                                                  *)
(***************************************************************************)

(* An address in a PLT, or none.                                           *)
LEMMA SlotIs ==
  ASSUME ReaderTypeOK, reader.inode \in DOMAIN Library,
         NEW i \in Nat, NEW n \in Nat \ {0}, NEW address \in Slot(i, n)
  PROVE  \/ address \in {0, Garbage}
         \/ /\ i # 0
            /\ \E k \in DOMAIN Here.plt :
                 /\ Here.plt[k].sym = i
                 /\ address = reader.bias + Here.plt[k].slot
                 /\ address \in Int
<1>1. Here.plt \in Seq([sym : Nat, slot : Nat])
  BY LibraryTyped DEF Here
<1>2. reader.bias \in Int
  BY ReaderTyped DEF ReaderFields
<1> DEFINE k == Nth(Slots(i), n)
<1>3. k \in Slots(i) \cup {0}
  <2>1. Slots(i) \in SUBSET DOMAIN Here.plt
    BY DEF Slots
  <2> QED BY <1>1, <2>1, NthInSeq
<1>4. \/ address \in {0, Garbage}
      \/ i # 0 /\ k # 0 /\ address = reader.bias + Here.plt[k].slot
  BY Zenon DEF Slot
<1> HIDE DEF k
<1>5. CASE i # 0 /\ k # 0 /\ address = reader.bias + Here.plt[k].slot
  <2>1. k \in DOMAIN Here.plt /\ Here.plt[k].sym = i
    BY <1>3, <1>5 DEF Slots
  <2>2. Here.plt[k] \in [sym : Nat, slot : Nat]
    BY <1>1, <2>1, ElementOfSeq, LenProperties
  <2>3. address \in Int
    BY <1>2, <1>5, <2>2
  <2> QED BY <1>5, <2>1, <2>3
<1> QED BY <1>4, <1>5

(* The dynamic symbols of a name, and those the hash tables lead to.       *)
LEMMA DynamicSymbolIs ==
  ASSUME reader.inode \in DOMAIN Library, NEW name
  PROVE  /\ \A i \in {GnuHashLookupSymbol(name), ElfHashLookupSymbol(name),
                      Least(Unhashed(name))} :
              i \in Nat /\ (i # 0 => i \in DOMAIN Here.dynsym /\ Here.dynsym[i].name = name)
         /\ \A n \in Nat \ {0} : 
              LET i == Nth(Unhashed(name), n) IN
              i \in Nat /\ (i # 0 => i \in DOMAIN Here.dynsym /\ Here.dynsym[i].name = name)
         /\ LET i == GnuHashLookupSymbol(name) IN
            i # 0 => Here.dynsym[i].value > 0
<1> DEFINE symbols == Here.dynsym
           named == {i \in DOMAIN symbols : symbols[i].name = name}
           hashed == {i \in DOMAIN symbols :
                        i >= Here.hashed /\ symbols[i].name = name}
<1>1. /\ symbols \in Seq([name : Letters, value : Nat])
      /\ \A i \in DOMAIN symbols : i >= Here.hashed => symbols[i].value > 0
  BY LibraryTyped DEF Here
<1>2. DOMAIN symbols = 1 .. Len(symbols) /\ Len(symbols) \in Nat
  BY <1>1, LenProperties
<1> HIDE DEF symbols
<1>3. Unhashed(name) \in SUBSET DOMAIN symbols /\ Unhashed(name) \subseteq named
  BY DEF Unhashed, symbols
<1>4. ASSUME NEW set \in SUBSET DOMAIN symbols, set \subseteq named, NEW n \in Nat \ {0}
      PROVE  LET i == Nth(set, n) IN
             /\ i \in Nat
             /\ i # 0 => i \in set /\ i \in DOMAIN symbols /\ symbols[i].name = name
  <2>1. Nth(set, n) \in set \cup {0}
    BY <1>1, NthInSeq
  <2> QED BY <1>2, <1>4, <2>1
<1>5. GnuHashLookupSymbol(name) = Nth(hashed, 1)
  BY DEF GnuHashLookupSymbol, Least, symbols
<1>6. ElfHashLookupSymbol(name) = Nth(named, 1)
  BY DEF ElfHashLookupSymbol, Least, symbols
<1>7. Least(Unhashed(name)) = Nth(Unhashed(name), 1)
  BY DEF Least
<1>8. hashed \in SUBSET DOMAIN symbols /\ hashed \subseteq named
      /\ named \in SUBSET DOMAIN symbols /\ 1 \in Nat \ {0}
  OBVIOUS
<1>9. \A i \in hashed : symbols[i].value > 0
  BY <1>1
<1> HIDE DEF named, hashed
<1>10. LET i == Nth(hashed, 1) IN
       /\ i \in Nat /\ (i # 0 => i \in DOMAIN symbols /\ symbols[i].name = name)
       /\ i # 0 => symbols[i].value > 0
  BY <1>4, <1>8, <1>9
<1>11. LET i == Nth(named, 1) IN
       i \in Nat /\ (i # 0 => i \in DOMAIN symbols /\ symbols[i].name = name)
  BY <1>4, <1>8
<1>12. \A n \in Nat \ {0} :
         LET i == Nth(Unhashed(name), n) IN
         i \in Nat /\ (i # 0 => i \in DOMAIN symbols /\ symbols[i].name = name)
  BY <1>3, <1>4
<1> QED BY <1>5, <1>6, <1>7, <1>8, <1>10, <1>11, <1>12 DEF symbols

(* What the lookup of an import gives, of one symbol or the n-th of many.  *)
ImportIs(name, address) ==
  \/ address \in {0, Garbage}
  \/ /\ reader.load
     /\ address \in Int
     /\ \E k \in DOMAIN Here.plt :
          /\ Here.dynsym[Here.plt[k].sym].name = name
          /\ address = reader.bias + Here.plt[k].slot

LEMMA SlotOfImport ==
  ASSUME ReaderTypeOK, BiasInv, reader.load, NEW name, NEW i \in Nat,
         i # 0 => Here.dynsym[i].name = name,
         NEW n \in Nat \ {0}, NEW address \in Slot(i, n)
  PROVE  ImportIs(name, address)
<1>1. reader.inode \in DOMAIN Library
  BY DEF BiasInv
<1> QED BY <1>1, SlotIs DEF ImportIs

LEMMA FindImportSymbolIs ==
  ASSUME ReaderTypeOK, BiasInv, NEW name, NEW address \in FindImportSymbol(name)
  PROVE  ImportIs(name, address)
<1>1. CASE ~reader.load
  BY <1>1 DEF FindImportSymbol, ImportIs
<1>2. CASE reader.load
  <2>1. reader.inode \in DOMAIN Library
    BY <1>2 DEF BiasInv
  <2>2. PICK i \in {ElfHashLookupSymbol(name), Least(Unhashed(name))} :
           address \in Slot(i, 1)
    BY <1>2, Zenon DEF FindImportSymbol
  <2>3. i \in Nat /\ (i # 0 => Here.dynsym[i].name = name)
    BY <2>1, DynamicSymbolIs
  <2> QED BY <1>2, <2>2, <2>3, SlotOfImport
<1> QED BY <1>1, <1>2

LEMMA FindImportSymbolsIs ==
  ASSUME ReaderTypeOK, BiasInv, NEW units \in Seq(Units), NEW type, 
         NEW k \in Typed(units, type),
         NEW address \in FindImportSymbols([j \in Typed(units, type) |-> units[j].name])[k]
  PROVE  ImportIs(units[k].name, address)
<1> DEFINE names == [j \in Typed(units, type) |-> units[j].name]
           asked == {j \in DOMAIN names : j <= k /\ names[j] = names[k]}
           times == Cardinality(asked)
<1>1. DOMAIN units = 1 .. Len(units) /\ Len(units) \in Nat
  BY LenProperties
<1>2. Typed(units, type) \subseteq 1 .. Len(units)
  BY <1>1 DEF Typed
<1>3. times \in Nat \ {0}
  <2>1. asked \subseteq 1 .. Len(units) /\ IsFiniteSet(1 .. Len(units))
    BY <1>1, <1>2, FS_Interval
  <2>2. k \in asked
    BY <1>2
  <2> HIDE DEF asked
  <2>3. IsFiniteSet(asked)
    BY <2>1, FS_Subset
  <2> QED BY <2>2, <2>3, FS_CardinalityType, FS_EmptySet
<1>4. names[k] = units[k].name
  OBVIOUS
<1>5. FindImportSymbols(names)[k] =
        IF ~reader.load THEN {0}
        ELSE IF "sysv" \in Here.hash THEN Slot(ElfHashLookupSymbol(names[k]), times)
        ELSE IF Here.words # 1 THEN Slot(Nth(Unhashed(names[k]), times), 1)
        ELSE {0}
  BY DEF FindImportSymbols
<1>6. address \in FindImportSymbols(names)[k]
  OBVIOUS
<1> HIDE DEF times, names
<1>7. CASE ~reader.load
  BY <1>5, <1>6, <1>7 DEF ImportIs
<1>8. CASE reader.load
  <2>1. reader.inode \in DOMAIN Library
    BY <1>8 DEF BiasInv
  <2>2. \/ address = 0
        \/ address \in Slot(ElfHashLookupSymbol(names[k]), times)
        \/ address \in Slot(Nth(Unhashed(names[k]), times), 1)
    BY <1>5, <1>6, Zenon
  <2>3. CASE address = 0
    BY <2>3 DEF ImportIs
  <2>4. CASE address \in Slot(ElfHashLookupSymbol(names[k]), times)
    <3>1. LET i == ElfHashLookupSymbol(names[k]) IN
          i \in Nat /\ (i # 0 => Here.dynsym[i].name = names[k])
      BY <2>1, DynamicSymbolIs
    <3> QED BY <1>3, <1>4, <1>8, <2>4, <3>1, SlotOfImport
  <2>5. CASE address \in Slot(Nth(Unhashed(names[k]), times), 1)
    <3>1. LET i == Nth(Unhashed(names[k]), times) IN
          i \in Nat /\ (i # 0 => Here.dynsym[i].name = names[k])
      BY <1>3, <2>1, DynamicSymbolIs
    <3> QED BY <1>4, <1>8, <2>5, <3>1, SlotOfImport
  <2> QED BY <2>2, <2>3, <2>4, <2>5
<1> QED BY <1>7, <1>8

LEMMA FindExportSymbolIs ==
  ASSUME ReaderTypeOK, BiasInv, NEW name, FindExportSymbol(name) # 0
  PROVE  /\ reader.load
         /\ FindExportSymbol(name) \in Int
         /\ \E i \in DOMAIN Here.dynsym :
              /\ Here.dynsym[i].name = name
              /\ FindExportSymbol(name) = reader.bias + Here.dynsym[i].value
         /\ "gnu" \in Here.hash => FindExportSymbol(name) # reader.bias
<1> DEFINE i == IF "gnu" \in Here.hash THEN GnuHashLookupSymbol(name)
                                       ELSE ElfHashLookupSymbol(name)
<1>1. /\ reader.load /\ i # 0
      /\ FindExportSymbol(name) = reader.bias + Here.dynsym[i].value
  BY DEF FindExportSymbol
<1>2. reader.inode \in DOMAIN Library /\ reader.bias \in Int
  BY <1>1, ReaderTyped DEF BiasInv, ReaderFields
<1>3. i \in {GnuHashLookupSymbol(name), ElfHashLookupSymbol(name)}
      /\ ("gnu" \in Here.hash => i = GnuHashLookupSymbol(name))
  OBVIOUS
<1> HIDE DEF i
<1>4. i \in DOMAIN Here.dynsym /\ Here.dynsym[i].name = name
  BY <1>1, <1>2, <1>3, DynamicSymbolIs
<1>5. Here.dynsym[i].value \in Nat
  <2>1. Here.dynsym \in Seq([name : Letters, value : Nat])
    BY <1>2, LibraryTyped DEF Here
  <2>2. Here.dynsym[i] \in [name : Letters, value : Nat]
    BY <1>4, <2>1, ElementOfSeq, LenProperties
  <2> QED BY <2>2
<1>6. ASSUME "gnu" \in Here.hash PROVE Here.dynsym[i].value > 0
  BY <1>1, <1>2, <1>3, <1>6, DynamicSymbolIs
<1> QED BY <1>1, <1>2, <1>4, <1>5, <1>6

(* A symbol of the file: the first of some, in the table or the cache.     *)
LEMMA FromDiskIs ==
  ASSUME ReaderTypeOK, reader.inode \in DOMAIN Library,
         NEW set \in SUBSET DOMAIN DiskSymbols, FromDisk(Least(set)) # 0
  PROVE  /\ FromDisk(Least(set)) \in Int
         /\ \E i \in set : /\ i \in DOMAIN DiskSymbols
                           /\ FromDisk(Least(set)) = reader.bias + DiskSymbols[i].value
<1> DEFINE i == Least(set)
<1>1. DiskSymbols \in Seq(SymbolRecord)
  BY DiskSymbolsTyped
<1>2. i \in set \cup {0}
  BY <1>1, LeastInSeq
<1> HIDE DEF i
<1>3. i # 0 /\ FromDisk(i) = reader.bias + DiskSymbols[i].value
  BY DEF FromDisk, i
<1>4. DiskSymbols[i] \in SymbolRecord
  BY <1>1, <1>2, <1>3, ElementOfSeq, LenProperties
<1>5. reader.bias \in Int
  BY ReaderTyped DEF ReaderFields
<1> QED BY <1>2, <1>3, <1>4, <1>5 DEF i, SymbolRecord

(* FindInternalSymbol gives a symbol of that name, FindInternalSymbolBy-   *)
(* Prefix one that the name begins: of the name itself if the cache holds  *)
(* one.                                                                    *)
InternalIs(name, address) ==
  /\ reader.diskLoad
  /\ address \in Int
  /\ \E i \in DOMAIN DiskSymbols :
       /\ DiskSymbols[i].name = name
       /\ address = reader.bias + DiskSymbols[i].value

LEMMA FindInternalSymbolIs ==
  ASSUME ReaderTypeOK, BiasInv, CacheInv, NEW name, FindInternalSymbol(name) # 0
  PROVE  InternalIs(name, FindInternalSymbol(name))
<1> DEFINE inTable == {i \in DOMAIN DiskSymbols : DiskSymbols[i].name \in {name}}
           inCache == {i \in reader.cache : DiskSymbols[i].name = name}
<1>1. reader.diskLoad
  BY DEF FindInternalSymbol
<1>2. reader.inode \in DOMAIN Library
  BY <1>1 DEF BiasInv
<1>3. inTable \in SUBSET DOMAIN DiskSymbols /\ inCache \in SUBSET DOMAIN DiskSymbols
  BY DEF CacheInv
<1>4. \A i \in inTable \cup inCache : DiskSymbols[i].name = name
  OBVIOUS
<1>5. \/ FindInternalSymbol(name) = FromDisk(Least(inTable))
      \/ FindInternalSymbol(name) = FromDisk(Least(inCache))
  BY <1>1 DEF FindInternalSymbol, IterateInternalSymbols
<1> HIDE DEF inTable, inCache
<1>6. PICK set \in SUBSET DOMAIN DiskSymbols :
         /\ \A i \in set : DiskSymbols[i].name = name
         /\ FindInternalSymbol(name) = FromDisk(Least(set))
  BY <1>3, <1>4, <1>5
<1>7. FromDisk(Least(set)) \in Int
      /\ \E i \in set : /\ i \in DOMAIN DiskSymbols
                        /\ FromDisk(Least(set)) = reader.bias + DiskSymbols[i].value
  BY <1>2, <1>6, FromDiskIs
<1> QED BY <1>1, <1>6, <1>7 DEF InternalIs

PrefixedIs(name, address) ==
  /\ address \in Int
  /\ \E i \in DOMAIN DiskSymbols :
       /\ address = reader.bias + DiskSymbols[i].value
       /\ IsPrefix(name, DiskSymbols[i].name)
       /\ \/ DiskSymbols[i].name = name
          \/ \A j \in reader.cache : DiskSymbols[j].name # name

LEMMA PrefixOfItself ==
  ASSUME NEW name PROVE IsPrefix(name, name)
BY DEF IsPrefix

(* Of the symbols that a name begins, the least in the order of the names  *)
(* is one of the name itself if there is one.                              *)
LEMMA FindByPrefixIs ==
  ASSUME ReaderTypeOK, BiasInv, CacheInv, NEW name \in Letters,
         FindInternalSymbolByPrefix(name) # 0
  PROVE  PrefixedIs(name, FindInternalSymbolByPrefix(name))
<1> DEFINE begins == {i \in DOMAIN DiskSymbols : DiskSymbols[i].name \in Begun(name)}
           begun == {i \in reader.cache : DiskSymbols[i].name \in Begun(name)}
           lowest == {i \in begun : \A j \in begun :
                        ~Before(DiskSymbols[j].name, DiskSymbols[i].name)}
<1>1. reader.diskLoad
  BY DEF FindInternalSymbolByPrefix
<1>2. reader.inode \in DOMAIN Library
  BY <1>1 DEF BiasInv
<1>3. /\ begins \in SUBSET DOMAIN DiskSymbols
      /\ lowest \in SUBSET DOMAIN DiskSymbols
      /\ begun \subseteq DOMAIN DiskSymbols
  BY DEF CacheInv
<1>4. \A i \in begins \cup lowest : IsPrefix(name, DiskSymbols[i].name)
  BY DEF Begun
<1>5. CASE reader.cache = {}
  <2>1. FindInternalSymbolByPrefix(name) = FromDisk(Least(begins))
    BY <1>1, <1>5 DEF FindInternalSymbolByPrefix, IterateInternalSymbols
  <2> HIDE DEF begins
  <2>2. /\ FromDisk(Least(begins)) \in Int
        /\ \E i \in begins : /\ i \in DOMAIN DiskSymbols
                             /\ FromDisk(Least(begins)) = reader.bias + DiskSymbols[i].value
    BY <1>2, <1>3, <2>1, FromDiskIs
  <2> QED BY <1>4, <1>5, <2>1, <2>2 DEF PrefixedIs
<1>6. CASE reader.cache # {}
  <2>1. FindInternalSymbolByPrefix(name) = FromDisk(Least(lowest))
    BY <1>1, <1>6 DEF FindInternalSymbolByPrefix, LowerBound
  <2> HIDE DEF lowest
  <2>2. /\ FromDisk(Least(lowest)) \in Int
        /\ \E i \in lowest : /\ i \in DOMAIN DiskSymbols
                             /\ FromDisk(Least(lowest)) = reader.bias + DiskSymbols[i].value
    BY <1>2, <1>3, <2>1, FromDiskIs
  <2>3. PICK i \in lowest : /\ i \in DOMAIN DiskSymbols
                            /\ FromDisk(Least(lowest)) = reader.bias + DiskSymbols[i].value
    BY <2>2
  <2>4. ASSUME NEW j \in reader.cache, DiskSymbols[j].name = name
        PROVE  DiskSymbols[i].name = name
    <3>1. j \in DOMAIN DiskSymbols
      BY DEF CacheInv
    <3>2. j \in begun
      BY <2>4, <3>1, PrefixOfItself DEF Begun
    <3>3. ~Before(name, DiskSymbols[i].name)
      BY <2>4, <3>2 DEF lowest
    <3>4. ~IsStrictPrefix(name, DiskSymbols[i].name)
      BY <3>3 DEF Before
    <3> QED BY <1>4, <3>4 DEF IsStrictPrefix
  <2> QED BY <1>4, <2>1, <2>2, <2>3, <2>4 DEF PrefixedIs
<1> QED BY <1>5, <1>6

LEMMA AddressOfIs ==
  ASSUME ReaderTypeOK, BiasInv, CacheInv, NEW name \in Letters, AddressOf(name) # 0
  PROVE  PrefixedIs(name, AddressOf(name))
<1>1. \/ AddressOf(name) = FindInternalSymbolByPrefix(name)
      \/ AddressOf(name) = FindInternalSymbol(name)
  BY Zenon DEF AddressOf, SymbolFinder
<1>2. CASE AddressOf(name) = FindInternalSymbolByPrefix(name)
  BY <1>2, FindByPrefixIs
<1>3. CASE AddressOf(name) = FindInternalSymbol(name)
  <2>1. InternalIs(name, AddressOf(name))
    BY <1>3, FindInternalSymbolIs
  <2> QED BY <2>1, PrefixOfItself DEF InternalIs, PrefixedIs
<1> QED BY <1>1, <1>2, <1>3

-----------------------------------------------------------------------------
(***************************************************************************)
(* What an answer says, of the reader it was made with.                    *)
(***************************************************************************)
AnswerIs(a) ==
  /\ a.type = "imported" => ImportIs(a.name, a.address)
  /\ a.type = "exported" =>
       \/ a.address = 0
       \/ /\ reader.load
          /\ a.address \in Int
          /\ \E i \in DOMAIN Here.dynsym :
               /\ Here.dynsym[i].name = a.name
               /\ a.address = reader.bias + Here.dynsym[i].value
          /\ "gnu" \in Here.hash => a.address # reader.bias
  /\ a.type = "internal" => a.address = 0 \/ InternalIs(a.name, a.address)
  /\ a.type = "linker" => PrefixedIs(a.name, a.address)

AnswersInv == \A a \in answers : a \in Answers /\ AnswerIs(a)

(* An answer stands while the reader stays as it is.                       *)
LEMMA AnswerStays ==
  ASSUME reader' = reader, NEW a
  PROVE  AnswerIs(a) => AnswerIs(a)'
<1>1. Here' = Here
  BY DEF Here
<1>2. DiskSymbols' = DiskSymbols
  BY <1>1 DEF DiskSymbols
<1>3. /\ ImportIs(a.name, a.address) <=> ImportIs(a.name, a.address)'
      /\ InternalIs(a.name, a.address) <=> InternalIs(a.name, a.address)'
      /\ PrefixedIs(a.name, a.address) <=> PrefixedIs(a.name, a.address)'
  BY <1>1, <1>2 DEF ImportIs, InternalIs, PrefixedIs
<1> QED BY <1>1, <1>3 DEF AnswerIs

LEMMA ImportAnswerIs ==
  ASSUME NEW name \in Letters, NEW address, ImportIs(name, address)
  PROVE  LET a == Answer(name, "imported", address) IN a \in Answers /\ AnswerIs(a)
<1> DEFINE a == Answer(name, "imported", address)
<1>1. a.name = name /\ a.type = "imported" /\ a.address = address
  BY DEF Answer
<1>2. AnswerIs(a)
  BY <1>1 DEF AnswerIs
<1>3. address \in Int
  BY DEF ImportIs, Garbage
<1> QED BY <1>2, <1>3 DEF Answer, Answers, SymbolTypes

LEMMA ExportAnswerIs ==
  ASSUME ReaderTypeOK, BiasInv, NEW name \in Letters
  PROVE  LET a == Answer(name, "exported", FindExportSymbol(name)) IN
         a \in Answers /\ AnswerIs(a)
<1> DEFINE a == Answer(name, "exported", FindExportSymbol(name))
<1>1. a.name = name /\ a.type = "exported" /\ a.address = FindExportSymbol(name)
  BY DEF Answer
<1>2. FindExportSymbol(name) = 0 \/
      (/\ reader.load
       /\ FindExportSymbol(name) \in Int
       /\ \E i \in DOMAIN Here.dynsym :
            /\ Here.dynsym[i].name = name
            /\ FindExportSymbol(name) = reader.bias + Here.dynsym[i].value
       /\ "gnu" \in Here.hash => FindExportSymbol(name) # reader.bias)
  BY FindExportSymbolIs
<1>3. AnswerIs(a)
  BY <1>1, <1>2 DEF AnswerIs
<1>4. FindExportSymbol(name) \in Int
  BY <1>2
<1> QED BY <1>3, <1>4 DEF Answer, Answers, SymbolTypes

LEMMA InternalAnswerIs ==
  ASSUME ReaderTypeOK, BiasInv, CacheInv, NEW name \in Letters
  PROVE  LET a == Answer(name, "internal", FindInternalSymbol(name)) IN
         a \in Answers /\ AnswerIs(a)
<1> DEFINE a == Answer(name, "internal", FindInternalSymbol(name))
<1>1. a.name = name /\ a.type = "internal" /\ a.address = FindInternalSymbol(name)
  BY DEF Answer
<1>2. FindInternalSymbol(name) = 0 \/ InternalIs(name, FindInternalSymbol(name))
  BY FindInternalSymbolIs
<1>3. AnswerIs(a)
  BY <1>1, <1>2 DEF AnswerIs
<1>4. FindInternalSymbol(name) \in Int
  BY <1>2 DEF InternalIs
<1> QED BY <1>3, <1>4 DEF Answer, Answers, SymbolTypes

LEMMA LinkerAnswerIs ==
  ASSUME ReaderTypeOK, BiasInv, CacheInv, NEW name \in Letters, AddressOf(name) # 0
  PROVE  LET a == Answer(name, "linker", AddressOf(name)) IN
         a \in Answers /\ AnswerIs(a)
<1> DEFINE a == Answer(name, "linker", AddressOf(name))
<1>1. a.name = name /\ a.type = "linker" /\ a.address = AddressOf(name)
  BY DEF Answer
<1>2. PrefixedIs(name, AddressOf(name))
  BY AddressOfIs
<1>3. AnswerIs(a)
  BY <1>1, <1>2 DEF AnswerIs
<1>4. AddressOf(name) \in Int
  BY <1>2 DEF PrefixedIs
<1> QED BY <1>3, <1>4 DEF Answer, Answers

(* What the lookups answer; they change nothing else of the reader.        *)
LEMMA LookUpAnswers ==
  ASSUME ReaderInv, LookUp
  PROVE  \A a \in answers' : a \in Answers /\ AnswerIs(a)
<1> DEFINE unit == request.units[1]
<1>1. ReaderTypeOK /\ PhaseInv /\ BiasInv /\ CacheInv
  BY DEF ReaderInv
<1>2. unit \in Units
  <2>1. request.units \in Seq(Units) /\ Len(request.units) = 1
    BY <1>1, ReaderTyped DEF LookUp, PhaseInv, Requests
  <2> QED BY <2>1, ElementOfSeq
<1>3. PICK address \in CASE unit.type = "imported" -> FindImportSymbol(unit.name)
                         [] unit.type = "exported" -> {FindExportSymbol(unit.name)}
                         [] unit.type = "internal" -> {FindInternalSymbol(unit.name)} :
         answers' = {Answer(unit.name, unit.type, address)}
  BY DEF LookUp
<1> HIDE DEF unit
<1>4. unit.name \in Letters /\ unit.type \in {"imported", "exported", "internal"}
  BY <1>2 DEF Units, SymbolTypes
<1>5. CASE unit.type = "imported"
  <2>1. address \in FindImportSymbol(unit.name)
    BY <1>3, <1>5
  <2>2. ImportIs(unit.name, address)
    BY <1>1, <2>1, FindImportSymbolIs
  <2> QED BY <1>3, <1>4, <1>5, <2>2, ImportAnswerIs
<1>6. CASE unit.type = "exported"
  <2>1. address = FindExportSymbol(unit.name)
    BY <1>3, <1>6
  <2> QED BY <1>1, <1>3, <1>4, <1>6, <2>1, ExportAnswerIs
<1>7. CASE unit.type = "internal"
  <2>1. address = FindInternalSymbol(unit.name)
    BY <1>3, <1>7
  <2> QED BY <1>1, <1>3, <1>4, <1>7, <2>1, InternalAnswerIs
<1> QED BY <1>4, <1>5, <1>6, <1>7

LEMMA LookUpAllAnswers ==
  ASSUME ReaderInv, LookUpAll
  PROVE  \A a \in answers' : a \in Answers /\ AnswerIs(a)
<1> DEFINE names(type) == [k \in Typed(request.units, type) |-> request.units[k].name]
           found(type) == FindImportSymbols(names(type))
           given(type, f) == {Answer(names(type)[k], type, f[k]) : k \in DOMAIN names(type)}
           any == {0, Garbage} \cup UNION (Range(found("imported")))
<1>1. ReaderTypeOK /\ BiasInv
  BY DEF ReaderInv
<1>2. PICK f \in [DOMAIN names("imported") -> any] :
         /\ \A k \in DOMAIN f : f[k] \in found("imported")[k]
         /\ answers' = given("imported", f)
              \cup given("exported", FindExportSymbols(names("exported")))
  BY DEF LookUpAll
<1>3. request.units \in Seq(Units)
  BY <1>1, ReaderTyped DEF Requests
<1>4. ASSUME NEW type, NEW k \in Typed(request.units, type)
      PROVE  /\ k \in DOMAIN names(type) /\ names(type)[k] = request.units[k].name
             /\ request.units[k].name \in Letters
  <2>1. request.units[k] \in Units
    BY <1>3, ElementOfSeq, LenProperties DEF Typed
  <2> QED BY <2>1 DEF Units
<1>5. ASSUME NEW k \in Typed(request.units, "imported")
      PROVE  LET a == Answer(names("imported")[k], "imported", f[k]) IN
             a \in Answers /\ AnswerIs(a)
  <2>1. f[k] \in FindImportSymbols(names("imported"))[k]
    BY <1>2, <1>4
  <2>2. ImportIs(request.units[k].name, f[k])
    BY <1>1, <1>3, <2>1, FindImportSymbolsIs
  <2> QED BY <1>4, <2>2, ImportAnswerIs
<1>6. ASSUME NEW k \in Typed(request.units, "exported")
      PROVE  LET a == Answer(names("exported")[k], "exported",
                             FindExportSymbols(names("exported"))[k]) IN
             a \in Answers /\ AnswerIs(a)
  <2>1. FindExportSymbols(names("exported"))[k] = FindExportSymbol(names("exported")[k])
    BY <1>4 DEF FindExportSymbols
  <2>2. names("exported")[k] \in Letters
    BY <1>4
  <2> QED BY <1>1, <2>1, <2>2, ExportAnswerIs
<1> QED BY <1>2, <1>5, <1>6

LEMMA ProcessSymbolAnswers ==
  ASSUME ReaderInv, NEW names \in NameLists, NEW required \in BOOLEAN,
         ProcessSymbol(names, required)
  PROVE  \A a \in answers' : a \in Answers /\ AnswerIs(a)
<1> DEFINE found == {n \in DOMAIN names : AddressOf(names[n]) # 0}
           k == Least(found)
<1>1. ReaderTypeOK /\ BiasInv /\ CacheInv
  BY DEF ReaderInv
<1>2. names \in Seq(Letters)
  BY ElfReaderAssumption
<1>3. k \in found \cup {0}
  BY <1>2, LeastInSeq
<1>4. answers' = IF k = 0 THEN {} ELSE {Answer(names[k], "linker", AddressOf(names[k]))}
  BY DEF ProcessSymbol
<1> HIDE DEF k
<1>5. CASE k = 0
  BY <1>4, <1>5
<1>6. CASE k # 0
  <2>1. names[k] \in Letters /\ AddressOf(names[k]) # 0
    BY <1>2, <1>3, <1>6, ElementOfSeq, LenProperties
  <2> QED BY <1>1, <1>4, <1>6, <2>1, LinkerAnswerIs
<1> QED BY <1>5, <1>6

LEMMA LookUpKeeps ==
  ASSUME ReaderInv,
         \/ LookUp
         \/ LookUpAll
         \/ \E names \in NameLists, required \in BOOLEAN : ProcessSymbol(names, required)
  PROVE  ReaderInv' /\ AnswersInv'
<1>1. ReaderTypeOK /\ CopyInv /\ PhaseInv /\ BiasInv /\ TablesInv /\ CacheInv
  BY DEF ReaderInv
<1>2. \A a \in answers' : a \in Answers /\ AnswerIs(a)
  BY LookUpAnswers, LookUpAllAnswers, ProcessSymbolAnswers
<1>3. UNCHANGED <<copy, reader, mapped, hidden>>
  BY DEF LookUp, LookUpAll, ProcessSymbol
<1>4. \/ pc = "find" /\ pc' \in {"done", "fault", "result"}
      \/ pc = "process" /\ pc' \in {"process", "done"}
  BY DEF LookUp, LookUpAll, ProcessSymbol
<1>5. /\ request' \in Requests
      /\ request'.call = request.call /\ request'.units = request.units
  <2>1. request \in Requests
    BY <1>1, ReaderTyped
  <2>2. CASE request' = request
    BY <2>1, <2>2
  <2>3. CASE LookUpAll
    <3>1. /\ pc = "find" /\ request.call = "symbols"
          /\ request' = [request EXCEPT !.i = Len(request.units) - 1]
      BY <2>3 DEF LookUpAll
    <3>2. request.units \in Seq(Units) /\ request.units # <<>>
      BY <1>1, <2>1, <3>1 DEF PhaseInv, Requests
    <3>3. Len(request.units) - 1 \in Nat
      BY <3>2, LenProperties, EmptySeq
    <3> QED BY <2>1, <3>1, <3>3 DEF Requests
  <2> QED BY <2>2, <2>3 DEF LookUp, ProcessSymbol
<1>6. ReaderTypeOK'
  BY <1>1, <1>2, <1>3, <1>4, <1>5, ReaderTyped, ReaderTypedNext DEF Phases
<1>7. CopyInv' /\ PhaseInv'
  BY <1>1, <1>3, <1>4, <1>5 DEF CopyInv, PhaseInv
<1>8. BiasInv' /\ CacheInv'
  BY <1>1, <1>3, <1>4 DEF BiasInv, Here, CacheInv, DiskSymbols
<1>9. TablesInv'
  BY <1>1, <1>3, <1>4 DEF TablesInv, TablesAlive, Here
<1>10. AnswersInv'
  BY <1>2, <1>3, AnswerStays DEF AnswersInv
<1> QED BY <1>6, <1>7, <1>8, <1>9, <1>10 DEF ReaderInv

-----------------------------------------------------------------------------
(***************************************************************************)
(* The theorems.                                                           *)
(***************************************************************************)
(* An action that leaves a reader without answers.                         *)
Unanswered ==
  \/ LoadFromMemory
  \/ LoadFromDisk \/ ReadFormDisk \/ MapFile
  \/ ParseFile \/ DecompressDebugData \/ LoadedFromDisk
  \/ CacheInternalSymbols
  \/ Destroy

LEMMA UnansweredKeeps == ReaderInv /\ Unanswered => ReaderInv' /\ answers' = {}
<1> SUFFICES ASSUME ReaderInv, Unanswered PROVE ReaderInv' /\ answers' = {}
  OBVIOUS
<1>1. ReaderInv'
  BY LoadFromMemoryKeeps, LoadFromDiskKeeps, ReadFormDiskKeeps, MapFileKeeps,
     ParseFileKeeps, DecompressDebugDataKeeps, LoadedFromDiskKeeps,
     CacheInternalSymbolsKeeps, DestroyKeeps DEF Unanswered
<1>2. CASE Destroy
  BY <1>1, <1>2 DEF Destroy
<1>3. CASE ~Destroy
  <2>1. /\ pc \in {"memory", "disk", "opened", "read", "mapped", "xz", "parsed", "cache"}
        /\ answers' = answers
    BY <1>3 DEF Unanswered, LoadFromMemory, LoadFromDisk, ReadFormDisk, MapFile,
                ParseFile, DecompressDebugData, LoadedFromDisk, CacheInternalSymbols
  <2>2. PhaseInv
    BY DEF ReaderInv
  <2> QED BY <1>1, <2>1, <2>2 DEF PhaseInv
<1> QED BY <1>1, <1>2, <1>3

(* An action that leaves the reader and its answers as they are.           *)
LEMMA AnswersStay ==
  ASSUME AnswersInv, reader' = reader, answers' = answers
  PROVE  AnswersInv'
BY AnswerStays DEF AnswersInv

LEMMA CallKeeps ==
  ASSUME ReaderInv,
         \/ \E name \in Named, unit \in [name : Asked, type : SymbolTypes] :
              find_library_symbol(name, unit)
         \/ \E name \in Named, units \in Batches : find_library_symbols(name, units)
         \/ LoadLinker
  PROVE  ReaderInv' /\ reader' = reader /\ answers' = answers
<1>1. ASSUME NEW name \in Named, NEW unit \in [name : Asked, type : SymbolTypes],
             find_library_symbol(name, unit)
      PROVE  ReaderInv' /\ reader' = reader /\ answers' = answers
  <2> DEFINE first == IF unit.type = "internal" THEN "disk" ELSE "memory"
  <2>1. unit \in Units
    BY ElfReaderAssumption DEF Units
  <2>2. <<unit>> \in Seq(Units) /\ Len(<<unit>>) = 1
    BY <2>1
  <2>3. Begin("symbol", name, <<unit>>, first) /\ first \in {"memory", "disk", "find"}
    BY <1>1 DEF find_library_symbol
  <2> HIDE DEF first
  <2>4. ReaderInv'
    BY <2>2, <2>3, BeginKeeps
  <2> QED BY <2>3, <2>4 DEF Begin
<1>2. ASSUME NEW name \in Named, NEW units \in Batches, find_library_symbols(name, units)
      PROVE  ReaderInv' /\ reader' = reader /\ answers' = answers
  <2>1. units \in Seq(Units) /\ units # <<>>
    BY ElfReaderAssumption
  <2>2. PICK first \in {"memory", "disk", "find"} : Begin("symbols", name, units, first)
    BY <1>2 DEF find_library_symbols
  <2>3. ReaderInv'
    BY <2>1, <2>2, BeginKeeps
  <2> QED BY <2>2, <2>3 DEF Begin
<1>3. ASSUME LoadLinker
      PROVE  ReaderInv' /\ reader' = reader /\ answers' = answers
  <2>1. Begin("load", Linker, <<>>, "disk")
    BY <1>3 DEF LoadLinker
  <2>2. <<>> \in Seq(Units) /\ Linker \in Named \cup {Linker}
    OBVIOUS
  <2>3. ReaderInv'
    BY <2>1, <2>2, BeginKeeps
  <2> QED BY <2>1, <2>3 DEF Begin
<1> QED BY <1>1, <1>2, <1>3

LEMMA StepKeeps ==
  ReaderInv /\ AnswersInv /\ [ExportNext]_exportVars => ReaderInv' /\ AnswersInv'
<1> SUFFICES ASSUME ReaderInv, AnswersInv, [ExportNext]_exportVars
             PROVE  ReaderInv' /\ AnswersInv'
  OBVIOUS
<1>1. CASE UNCHANGED readerVars
  <2>1. UNCHANGED <<copy, pc, request, reader, mapped, answers, hidden>>
    BY <1>1 DEF readerVars
  <2>2. ReaderTypeOK'
    BY <2>1 DEF ReaderInv, ReaderTypeOK
  <2>3. CopyInv' /\ PhaseInv'
    BY <2>1 DEF ReaderInv, CopyInv, PhaseInv
  <2>4. BiasInv' /\ CacheInv'
    BY <2>1 DEF ReaderInv, BiasInv, CacheInv, DiskSymbols, Here
  <2>5. TablesInv'
    BY <2>1 DEF ReaderInv, TablesInv, InFile, WellPacked, Held, TablesAlive,
                Incomplete, Here
  <2> QED BY <2>1, <2>2, <2>3, <2>4, <2>5, AnswersStay DEF ReaderInv
<1>2. CASE Unanswered
  BY <1>2, UnansweredKeeps DEF AnswersInv
<1>3. CASE \/ \E name \in Named, unit \in [name : Asked, type : SymbolTypes] :
                find_library_symbol(name, unit)
           \/ \E name \in Named, units \in Batches : find_library_symbols(name, units)
           \/ LoadLinker
  BY <1>3, CallKeeps, AnswersStay
<1>4. CASE \/ LookUp
           \/ LookUpAll
           \/ \E names \in NameLists, required \in BOOLEAN : ProcessSymbol(names, required)
  BY <1>4, LookUpKeeps
<1>5. CASE OtherMaps \/ OtherUnmaps \/ Result \/ LoadSymbolDone
  <2>1. ReaderInv'
    BY <1>5, OtherMapsKeeps, OtherUnmapsKeeps, ResultKeeps, LoadSymbolDoneKeeps
  <2>2. reader' = reader /\ answers' = answers
    BY <1>5 DEF OtherMaps, OtherUnmaps, Result, LoadSymbolDone
  <2> QED BY <2>1, <2>2, AnswersStay
<1>6. ASSUME ReaderNext PROVE ReaderInv' /\ AnswersInv'
  BY <1>2, <1>3, <1>4, <1>5, <1>6, Zenon DEF ReaderNext, Unanswered
<1> QED BY <1>1, <1>6 DEF ExportNext, LinkerCall, ReaderStep, exportVars

LEMMA ReaderInvHolds == ExportSpec => [](ReaderInv /\ AnswersInv)
<1>1. ExportInit => ReaderInv /\ AnswersInv
  <2>1. ReaderInit => answers = {}
    BY DEF ReaderInit
  <2> QED BY <2>1, ReaderInits DEF ExportInit, AnswersInv
<1> QED BY <1>1, StepKeeps, PTL DEF ExportSpec

(* The fields of the reader and the answers have their types, whatever the *)
(* maps, the files and the symbols asked for.                              *)
THEOREM ReaderTypeCorrect == ExportSpec => []ReaderTypeOK
<1>1. ReaderInv => ReaderTypeOK
  BY DEF ReaderInv
<1> QED BY <1>1, ReaderInvHolds, PTL

(* What LoadFromDisk has found is in memory that ElfDiskInfo holds and     *)
(* within its file, when a reader says it has loaded from disk.            *)
THEOREM TablesAliveHolds == ExportSpec => []TablesAlive
<1>1. ReaderInv => TablesAlive
  BY DEF ReaderInv, TablesInv
<1> QED BY <1>1, ReaderInvHolds, PTL

(* An address that find_library_symbol or find_library_symbols gives is    *)
(* that of the symbol asked for, whether from the hash tables, the PLT or  *)
(* the symbols of the file.                                                *)
THEOREM AddressIsSymbolHolds == ExportSpec => []AddressIsSymbol
<1>1. ASSUME ReaderInv, AnswersInv PROVE AddressIsSymbol
  <2> SUFFICES ASSUME NEW a \in answers, a.address # 0, a.address # Garbage,
                      ~(reader.disk /\ Here.vaddr # 0)
               PROVE  Right(a)
    BY DEF AddressIsSymbol
  <2> DEFINE bias == reader.base - Here.vaddr
  <2>1. a \in Answers /\ AnswerIs(a) /\ BiasInv
    BY <1>1 DEF AnswersInv, ReaderInv
  <2>2. reader.load \/ reader.disk => reader.bias = bias
    BY <2>1 DEF BiasInv
  <2> HIDE DEF bias
  <2>3. CASE a.type = "imported"
    <3>1. /\ reader.load
          /\ \E k \in DOMAIN Here.plt :
               /\ Here.dynsym[Here.plt[k].sym].name = a.name
               /\ a.address = reader.bias + Here.plt[k].slot
      BY <2>1, <2>3 DEF AnswerIs, ImportIs
    <3> QED BY <2>2, <2>3, <3>1 DEF Right, bias
  <2>4. CASE a.type = "exported"
    <3>1. /\ reader.load
          /\ \E i \in DOMAIN Here.dynsym :
               /\ Here.dynsym[i].name = a.name
               /\ a.address = reader.bias + Here.dynsym[i].value
          /\ "gnu" \in Here.hash => a.address # reader.bias
      BY <2>1, <2>4 DEF AnswerIs
    <3> QED BY <2>2, <2>4, <3>1 DEF Right, DefinedAt, bias
  <2>5. CASE a.type = "internal"
    <3>1. /\ reader.disk
          /\ \E i \in DOMAIN DiskSymbols :
               /\ DiskSymbols[i].name = a.name
               /\ a.address = reader.bias + DiskSymbols[i].value
      BY <2>1, <2>5 DEF AnswerIs, InternalIs, BiasInv
    <3> QED BY <2>2, <2>5, <3>1 DEF Right, DefinedAt, bias
  <2>6. CASE a.type = "linker"
    BY <2>6 DEF Right
  <2>7. a.type \in {"imported", "exported", "internal", "linker"}
    BY <2>1 DEF Answers, SymbolTypes
  <2> QED BY <2>3, <2>4, <2>5, <2>6, <2>7
<1> QED BY <1>1, ReaderInvHolds, PTL

(* A name that LoadSymbol is given is found as the linker has it: the      *)
(* symbol of that name if there is one, else one that begins so.           *)
THEOREM ExactFirstHolds == ExportSpec => []ExactFirst
<1>1. AnswersInv => ExactFirst
  BY DEF AnswersInv, AnswerIs, PrefixedIs, ExactFirst
<1> QED BY <1>1, ReaderInvHolds, PTL

(* The base is where the library was loaded, and not where another thread  *)
(* has mapped its file to read it; unless that lies before the library and *)
(* no line of another file between.                                        *)
THEOREM BaseIsLibraryHolds == ExportSpec => []BaseIsLibrary
<1>1. ExportInit => BaseIsLibrary
  BY DEF ExportInit, ReaderInit, NoReader, BaseIsLibrary
<1>2. ASSUME BaseIsLibrary, ReaderInv, [ExportNext]_exportVars
      PROVE  BaseIsLibrary'
  <2>1. ReaderTypeOK /\ CopyInv /\ PhaseInv
    BY <1>2 DEF ReaderInv
  <2>2. BaseIsLibrary' <=>
          (reader'.base # 0 /\ ~hidden' =>
             Based(request'.name, reader'.base, reader'.inode))
    BY DEF BaseIsLibrary, Based
  <2>3. BaseIsLibrary <=>
          (reader.base # 0 /\ ~hidden => Based(request.name, reader.base, reader.inode))
    BY DEF BaseIsLibrary, Based
  <2>4. CASE reader' = NoReader
    BY <2>2, <2>4 DEF NoReader
  <2>5. CASE /\ reader'.base = reader.base /\ reader'.inode = reader.inode
             /\ request'.name = request.name /\ hidden' = hidden
    BY <1>2, <2>2, <2>3, <2>5
  <2>6. CASE LoadFromMemory \/ LoadFromDisk
    <3> DEFINE pages == GetLibraryProtect(CurrentLines, request.name)
               base == GetLibraryBaseAddress(pages)
               inode == Head(pages).inode
    <3>1. request' = request
      BY <2>6 DEF LoadFromMemory, LoadFromDisk
    <3>2. CASE pages = <<>>
      <4>1. UNCHANGED <<reader, hidden>>
        BY <2>6, <3>2 DEF LoadFromMemory, LoadFromDisk
      <4> QED BY <2>5, <3>1, <4>1
    <3>3. CASE pages # <<>>
      <4>1. CopyHides(inode) \/ Based(request.name, base, inode)
        BY <2>1, <3>3, FoundInMaps
      <4>2. /\ reader'.base = base /\ reader'.inode = inode
            /\ hidden' = CopyHides(inode)
        <5>1. reader \in ReaderFields
          BY <2>1, ReaderTyped
        <5> QED BY <2>6, <3>3, <5>1 DEF LoadFromMemory, LoadFromDisk, ReaderFields
      <4> HIDE DEF pages, base, inode
      <4> QED BY <2>2, <3>1, <4>1, <4>2
    <3> QED BY <3>2, <3>3
  <2>7. ASSUME NEW operation, NEW name, NEW units, NEW first,
               Begin(operation, name, units, first)
        PROVE  reader' = NoReader
    BY <2>1, <2>7 DEF Begin, PhaseInv
  <2>8. CASE \/ \E name \in Named, unit \in [name : Asked, type : SymbolTypes] :
                  find_library_symbol(name, unit)
             \/ \E name \in Named, units \in Batches : find_library_symbols(name, units)
             \/ LoadLinker
    BY <2>4, <2>7, <2>8 DEF find_library_symbol, find_library_symbols, LoadLinker
  <2>9. CASE Destroy
    BY <2>4, <2>9 DEF Destroy
  <2>10. CASE ParseFile \/ DecompressDebugData
    <3>1. \/ reader' = reader
          \/ \E sections, in, names : reader' = ParseSection(sections, in, names)
      BY <2>10 DEF ParseFile, DecompressDebugData
    <3>2. reader \in ReaderFields
      BY <2>1, ReaderTyped
    <3>3. reader'.base = reader.base /\ reader'.inode = reader.inode
      BY <3>1, <3>2 DEF ParseSection, ReaderFields
    <3> QED BY <2>5, <2>10, <3>3 DEF ParseFile, DecompressDebugData
  <2>11. CASE LoadedFromDisk \/ CacheInternalSymbols
    <3>1. reader \in ReaderFields
      BY <2>1, ReaderTyped
    <3>2. reader'.base = reader.base /\ reader'.inode = reader.inode
      BY <2>11, <3>1 DEF LoadedFromDisk, CacheInternalSymbols, ReaderFields
    <3> QED BY <2>5, <2>11, <3>2 DEF LoadedFromDisk, CacheInternalSymbols
  <2>12. CASE LookUpAll \/ Result
    <3>1. request \in Requests
      BY <2>1, ReaderTyped
    <3>2. request'.name = request.name
      BY <2>12, <3>1 DEF LookUpAll, Result, Requests
    <3> QED BY <2>5, <2>12, <3>2 DEF LookUpAll, Result
  <2>13. CASE \/ OtherMaps \/ OtherUnmaps \/ ReadFormDisk \/ MapFile
              \/ LookUp \/ LoadSymbolDone
              \/ \E names \in NameLists, required \in BOOLEAN :
                   ProcessSymbol(names, required)
    <3>1. UNCHANGED <<request, reader, hidden>>
      BY <2>13 DEF OtherMaps, OtherUnmaps, ReadFormDisk, MapFile, LookUp,
                   LoadSymbolDone, ProcessSymbol
    <3> QED BY <2>5, <3>1
  <2>14. CASE ReaderNext
    BY <2>6, <2>8, <2>9, <2>10, <2>11, <2>12, <2>13, <2>14, Zenon DEF ReaderNext
  <2>15. CASE UNCHANGED readerVars
    BY <2>5, <2>15 DEF readerVars
  <2> QED BY <1>2, <2>14, <2>15 DEF ExportNext, LinkerCall, ReaderStep, exportVars
<1> QED BY <1>1, <1>2, ReaderInvHolds, PTL DEF ExportSpec

-----------------------------------------------------------------------------
(***************************************************************************)
(* The calls that go through the tables of the linker.                     *)
(***************************************************************************)
(* The devices there are: what Init chooses and no call changes.           *)
Device ==
  /\ api \in 21..35
  /\ abi \in {"arm", "arm64", "x86", "x86_64"}
  /\ LP64 => "NEW_SOINFO" \in flags
  /\ "GNU_HASH" \in flags => api >= M

LEMMA Versions ==
  /\ L = 21 /\ L_MR1 = 22 /\ M = 23 /\ N = 24 /\ N_MR1 = 25 /\ O = 26
  /\ O_MR1 = 27 /\ P = 28 /\ Q = 29 /\ R = 30 /\ S = 31 /\ T = 33 /\ U = 34
  /\ V = 35
BY DEF L, L_MR1, M, N, N_MR1, O, O_MR1, P, Q, R, S, T, U, V

(* The layout of each version, by the versions that share it.              *)
LEMMA LayoutOf ==
  ASSUME Device
  PROVE  /\ api = 21 => Getters = InitApiL
         /\ api = 22 => Getters = InitApiL1
         /\ api = 23 => Getters = InitApiM
         /\ api \in 24..27 => Getters = InitApiN
         /\ api = 28 => Getters = InitApiP
         /\ api \in 29..30 => Getters = InitApiQ
         /\ api \in 31..32 => Getters = InitApiS
         /\ api \in 33..35 => Getters = InitApiT
<1> USE Versions DEF Device
<1>1. api = 21 => Getters = InitApiL
  BY DEF Getters
<1>2. api = 22 => Getters = InitApiL1
  BY DEF Getters
<1>3. api = 23 => Getters = InitApiM
  BY DEF Getters
<1>4. api \in 24..27 => Getters = InitApiN
  BY DEF Getters, InitApiN1, InitApiO
<1>5. api = 28 => Getters = InitApiP
  BY DEF Getters
<1>6. api \in 29..30 => Getters = InitApiQ
  BY DEF Getters
<1>7. api \in 31..32 => Getters = InitApiS
  BY DEF Getters
<1>8. api \in 33..35 => Getters = InitApiT
  BY DEF Getters, InitApiU, InitApiV
<1> QED BY <1>1, <1>2, <1>3, <1>4, <1>5, <1>6, <1>7, <1>8

(* Members every layout has.                                               *)
Common ==
  {"phdr", "phnum", "base", "size", "dynamic", "next", "flags_", "strtab_",
   "symtab_", "nbucket_", "nchain_", "bucket_", "chain_",
   "preinit_array_count_", "init_array_count_", "fini_array_",
   "fini_array_count_", "constructors_called", "load_bias", "has_DT_SYMBOLIC",
   "version_", "realpath_"}
  \cup Tables \cup When(~LP64, {"plt_got_"})

(* Members from Android 6.0 on.                                            *)
FromM ==
  {"rtld_flags_", "dt_flags_1_", "gnu_nbucket_", "gnu_bucket_", "gnu_chain_",
   "gnu_maskwords_", "gnu_shift2_", "gnu_bloom_filter_", "soname_", "versym_"}

LEMMA SomeLayouts ==
  /\ Common \cup {"name_", "preinit_array_", "init_array_"} \subseteq InitApiL
  /\ InitApiL \cup {"file_offset_", "strtab_size_", "rtld_flags_L"} \subseteq InitApiL1
  /\ Common \cup FromM
       \cup {"file_offset_", "strtab_size_", "preinit_array_", "init_array_"}
       \subseteq InitApiM
  /\ InitApiM \cup {"primary_namespace_", "secondary_namespaces_", "handle_"}
       \subseteq InitApiN
<1>1. Common \cup {"name_", "preinit_array_", "init_array_"} \subseteq InitApiL
  BY DEF Common, InitApiL, Tables, Relocations, When
<1>2. InitApiL \cup {"file_offset_", "strtab_size_", "rtld_flags_L"} \subseteq InitApiL1
  BY DEF InitApiL1
<1>3. Common \subseteq InitApiL1 \ {"name_", "rtld_flags_L"}
  BY <1>1, <1>2 DEF Common, Tables, When
<1>4. {"file_offset_", "strtab_size_", "preinit_array_", "init_array_"}
        \subseteq InitApiL1 \ {"name_", "rtld_flags_L"}
  BY <1>1, <1>2
<1>5. Common \cup FromM
       \cup {"file_offset_", "strtab_size_", "preinit_array_", "init_array_"}
       \subseteq InitApiM
  BY <1>3, <1>4 DEF FromM, InitApiM
<1>6. InitApiM \cup {"primary_namespace_", "secondary_namespaces_", "handle_"}
       \subseteq InitApiN
  BY DEF InitApiN
<1> QED BY <1>1, <1>2, <1>5, <1>6

LEMMA LaterLayouts ==
  /\ InitApiM \ {"preinit_array_", "init_array_", "init_func_"} \subseteq InitApiP
  /\ {"primary_namespace_", "secondary_namespaces_", "handle_", "preinit_array_P",
       "init_array_P"}
       \subseteq InitApiP
  /\ InitApiP \subseteq InitApiQ /\ InitApiQ \subseteq InitApiS
  /\ InitApiS \ {"children_", "parents_", "secondary_namespaces_"} \subseteq InitApiT
  /\ "secondary_namespaces_T" \in InitApiT
<1>1. InitApiM \ {"preinit_array_", "init_array_", "init_func_"} \subseteq InitApiP
  BY DEF InitApiP, InitApiO, InitApiN1, InitApiN, Arrays
<1>2. {"primary_namespace_", "secondary_namespaces_", "handle_", "preinit_array_P",
       "init_array_P"}
        \subseteq InitApiP
  BY DEF InitApiP, InitApiO, InitApiN1, InitApiN, Arrays
<1>3. InitApiP \subseteq InitApiQ /\ InitApiQ \subseteq InitApiS
  BY DEF InitApiQ, InitApiS
<1>4. /\ InitApiS \ {"children_", "parents_", "secondary_namespaces_"} \subseteq InitApiT
      /\ "secondary_namespaces_T" \in InitApiT
  BY DEF InitApiT
<1> QED BY <1>1, <1>2, <1>3, <1>4

(* What a call may read of a soinfo on its version.                        *)
LEMMA Members ==
  ASSUME Device
  PROVE  /\ Common \subseteq Getters
         /\ api < M => "name_" \in Getters
         /\ api < P => {"preinit_array_", "init_array_"} \subseteq Getters
         /\ api >= P => {"preinit_array_P", "init_array_P"} \subseteq Getters
         /\ api >= L_MR1 => {"file_offset_", "strtab_size_"} \subseteq Getters
         /\ api = L_MR1 => "rtld_flags_L" \in Getters
         /\ api >= M => FromM \subseteq Getters
         /\ api >= N => {"primary_namespace_", "handle_"} \subseteq Getters
         /\ api \in N..(T - 1) => "secondary_namespaces_" \in Getters
         /\ api >= T => "secondary_namespaces_T" \in Getters
         /\ ~LP64 => "plt_got_" \in Getters
<1>1. CASE api = 21
  <2>1. Getters = InitApiL
    BY <1>1, LayoutOf
  <2> QED BY <1>1, <2>1, SomeLayouts, Versions DEF Common, When
<1>2. CASE api = 22
  <2>1. Getters = InitApiL1
    BY <1>2, LayoutOf
  <2> QED BY <1>2, <2>1, SomeLayouts, Versions DEF Common, When
<1>3. CASE api = 23
  <2>1. Getters = InitApiM
    BY <1>3, LayoutOf
  <2> QED BY <1>3, <2>1, SomeLayouts, Versions DEF Common, When
<1>4. CASE api \in 24..27
  <2>1. Getters = InitApiN
    BY <1>4, LayoutOf
  <2> QED BY <1>4, <2>1, SomeLayouts, Versions DEF Common, When
<1> DEFINE Later == Common \cup FromM \cup {"file_offset_", "strtab_size_",
                      "primary_namespace_", "handle_", "preinit_array_P", "init_array_P"}
<1>5. Later \subseteq InitApiP /\ "secondary_namespaces_" \in InitApiP
  <2>1. Common \cup FromM \cup {"file_offset_", "strtab_size_"}
          \subseteq InitApiM \ {"preinit_array_", "init_array_", "init_func_"}
    BY SomeLayouts DEF Common, FromM, Tables, When
  <2> QED BY <2>1, LaterLayouts
<1>6. Later \subseteq InitApiT /\ "secondary_namespaces_T" \in InitApiT
  <2>1. Later \subseteq InitApiS \ {"children_", "parents_", "secondary_namespaces_"}
    BY <1>5, LaterLayouts DEF Common, FromM, Tables, When
  <2> QED BY <2>1, LaterLayouts
<1>7. CASE api \in 28..32
  <2>1. Getters \in {InitApiP, InitApiQ, InitApiS}
    BY <1>7, LayoutOf
  <2>2. Later \subseteq Getters /\ "secondary_namespaces_" \in Getters
    BY <2>1, <1>5, LaterLayouts
  <2> QED BY <1>7, <2>2, Versions DEF Common, When
<1>8. CASE api \in 33..35
  <2>1. Getters = InitApiT
    BY <1>8, LayoutOf
  <2> QED BY <1>8, <2>1, <1>6, Versions DEF Common, When
<1>9. api \in 21..35
  BY DEF Device
<1> QED BY <1>1, <1>2, <1>3, <1>4, <1>7, <1>8, <1>9

(* And what it may write.                                                  *)
LEMMA Writable ==
  ASSUME Device
  PROVE  /\ api >= M => {"dt_flags_1_", "rtld_flags_"} \subseteq Setters
         /\ api >= N => "primary_namespace_" \in Setters
BY Members DEF Setters, ReadOnly, FromM

(* What a call may use of a namespace.                                     *)
LEMMA MembersOfNamespace ==
  ASSUME Device, api >= N
  PROVE  /\ "ld_library_paths_" \in NamespaceMembers
         /\ api < T => "soinfo_list_" \in NamespaceMembers
         /\ api >= T => "soinfo_list_T" \in NamespaceMembers
         /\ api < R => "name_" \in NamespaceMembers
         /\ api \in O..O_MR1 => "linked_namespaces_" \in NamespaceMembers
         /\ api >= P => "linked_namespaces_P" \in NamespaceMembers
         /\ api >= Q => "whitelisted_libs_" \in NamespaceMembers
BY Versions DEF Device, NamespaceMembers, Paths

-----------------------------------------------------------------------------
AllServed(accesses) == \A a \in accesses : Served(a)

(* None of the symbols is missing when these categories were loaded.       *)
Provided(accesses, asked) ==
  \A a \in accesses : a[1] = "sym" => ~Aborts(a[2], asked)

Fine(accesses, asked) == AllServed(accesses) /\ Provided(accesses, asked)

LEMMA FineGets ==
  ASSUME NEW X, X \subseteq Getters, NEW c PROVE Fine(Gets(X), c)
BY DEF Fine, AllServed, Provided, Gets, Served

LEMMA FineSets ==
  ASSUME NEW X, X \subseteq Setters, NEW c PROVE Fine(Sets(X), c)
BY DEF Fine, AllServed, Provided, Sets, Served

LEMMA FineUses ==
  ASSUME NEW X, X \subseteq NamespaceMembers, NEW c PROVE Fine(Uses(X), c)
BY DEF Fine, AllServed, Provided, Uses, Served

LEMMA FineSymbols ==
  ASSUME NEW X, NEW c, \A s \in X : InRange(s) /\ ~Aborts(s, c)
  PROVE  Fine(Symbols(X), c)
BY DEF Fine, AllServed, Provided, Symbols, Served

LEMMA FineCup ==
  ASSUME NEW X, NEW Y, NEW c, Fine(X, c), Fine(Y, c) PROVE Fine(X \cup Y, c)
BY DEF Fine, AllServed, Provided

LEMMA FineNone == ASSUME NEW c PROVE Fine({}, c)
BY DEF Fine, AllServed, Provided

(* The symbols a library of the process is reached through.                *)
LEMMA FineSymbolsOf ==
  ASSUME Device, NEW c
  PROVE  /\ Fine(Symbols({"solist"}), c)
         /\ "DlopenDlSym" \in c =>
              /\ Fine(Symbols({"linker_soinfo"}), c)
              /\ Fine(Symbols({"g_dl_mutex"}), c)
              /\ Fine(Symbols({"g_dl_mutex", "linker_dl_err_buf"}), c)
              /\ api < M => Fine(Symbols({"g_ld_preloads"}), c)
              /\ api < N => Fine(Symbols({"dlopen"}), c)
              /\ api \in N..N_MR1 =>
                   Fine(Symbols({"dlopenN"}), c) /\ Fine(Symbols({"dlsymN"}), c)
              /\ api >= O =>
                   Fine(Symbols({"dlopenO"}), c) /\ Fine(Symbols({"dlsymO"}), c)
         /\ api >= N /\ "SoinfoHandler" \in c => Fine(Symbols({"g_soinfo_handles_map"}), c)
         /\ "SoinfoMemory" \in c => Fine(LinkerBlockLock, c)
         /\ "Namespace" \in c /\ api \in N..N_MR1 => Fine(Symbols({"create_namespaceN"}), c)
         /\ "Namespace" \in c /\ api >= O => Fine(Symbols({"create_namespaceO"}), c)
<1> USE FineSymbols, Versions DEF Device, InRange, Aborts, OnDevice, Category,
       Allocators, NamespaceAllocators
<1>1. Fine(Symbols({"solist"}), c)
  OBVIOUS
<1>2. ASSUME "DlopenDlSym" \in c
      PROVE  /\ Fine(Symbols({"linker_soinfo"}), c)
             /\ Fine(Symbols({"g_dl_mutex"}), c)
             /\ Fine(Symbols({"g_dl_mutex", "linker_dl_err_buf"}), c)
             /\ api < M => Fine(Symbols({"g_ld_preloads"}), c)
             /\ api < N => Fine(Symbols({"dlopen"}), c)
             /\ api \in N..N_MR1 =>
                  Fine(Symbols({"dlopenN"}), c) /\ Fine(Symbols({"dlsymN"}), c)
             /\ api >= O =>
                  Fine(Symbols({"dlopenO"}), c) /\ Fine(Symbols({"dlsymO"}), c)
  BY <1>2
<1>3. api >= N /\ "SoinfoHandler" \in c => Fine(Symbols({"g_soinfo_handles_map"}), c)
  OBVIOUS
<1>4. ASSUME "SoinfoMemory" \in c PROVE Fine(LinkerBlockLock, c)
  BY <1>4 DEF LinkerBlockLock, When
<1>5. "Namespace" \in c /\ api \in N..N_MR1 => Fine(Symbols({"create_namespaceN"}), c)
  OBVIOUS
<1>6. "Namespace" \in c /\ api >= O => Fine(Symbols({"create_namespaceO"}), c)
  OBVIOUS
<1> QED BY <1>1, <1>2, <1>3, <1>4, <1>5, <1>6

(* Reading a soinfo.                                                       *)
LEMMA FineSoinfo ==
  ASSUME Device, NEW c
  PROVE  /\ Fine(get_soname, c)
         /\ Fine(realpath, c)
         /\ Fine(get_versym_table, c)
         /\ Fine(get_string, c)
         /\ \A X \in SUBSET Common : Fine(Gets(X), c)
         /\ api >= M => Fine(set_dt_flags_1, c) /\ Fine(Gets({"dt_flags_1_"}), c)
<1> USE Members, FineGets, FineCup, FineNone DEF When
<1>1. \A X \in SUBSET Common : Fine(Gets(X), c)
  OBVIOUS
<1>2. Fine(get_soname, c)
  <2>1. api >= M => Fine(Gets({"soname_"}), c)
    BY DEF FromM
  <2>2. ~(api >= M) => Fine(Gets({"name_"}), c)
    BY Versions DEF Device
  <2> QED BY <2>1, <2>2 DEF get_soname
<1>3. Fine(realpath, c)
  BY <1>1, <1>2 DEF realpath, Common
<1>4. Fine(has_min_version, c)
  BY <1>1 DEF has_min_version, Common
<1>5. Fine(get_versym_table, c)
  <2>1. ASSUME MinVersion(2) PROVE api >= M
    BY <2>1, Versions DEF MinVersion, Unversioned, Version, Device
  <2>2. MinVersion(2) => Fine(Gets({"versym_"}), c)
    BY <2>1 DEF FromM
  <2> QED BY <1>4, <2>2 DEF get_versym_table
<1>6. Fine(get_string, c)
  <2>1. Fine(Gets({"strtab_"}), c)
    BY <1>1 DEF Common
  <2>2. api >= L_MR1 => Fine(Gets({"strtab_size_"}), c)
    OBVIOUS
  <2>3. Fine(When(MinVersion(1) /\ api >= L_MR1, Gets({"strtab_size_"}) \cup realpath), c)
    BY <1>3, <2>2
  <2> QED BY <1>4, <2>1, <2>3 DEF get_string
<1>7. api >= M => Fine(set_dt_flags_1, c) /\ Fine(Gets({"dt_flags_1_"}), c)
  <2>1. api >= M => /\ Fine(Gets({"dt_flags_1_", "rtld_flags_"}), c)
                    /\ Fine(Gets({"dt_flags_1_"}), c)
                    /\ Fine(Sets({"dt_flags_1_", "rtld_flags_"}), c)
    BY Writable, FineSets DEF FromM
  <2>2. api >= M =>
          Fine(Gets({"dt_flags_1_", "rtld_flags_"}) \cup Sets({"dt_flags_1_", "rtld_flags_"}), c)
    BY <2>1
  <2>3. api >= M => Fine(When(MinVersion(1), Gets({"dt_flags_1_", "rtld_flags_"})
                                         \cup Sets({"dt_flags_1_", "rtld_flags_"})), c)
    BY <2>2
  <2> QED BY <1>4, <2>1, <2>3, FineCup DEF set_dt_flags_1
<1> QED BY <1>1, <1>2, <1>3, <1>5, <1>6, <1>7

(* Looking up symbols in a library.                                        *)
LEMMA FineLookups ==
  ASSUME Device, NEW c
  PROVE  /\ Fine(find_export_symbol_address, c)
         /\ Fine(AllSymbols, c)
         /\ Fine(find_export_symbol_by_prefix, c)
         /\ Fine(get_global_soinfo_export_symbols, c)
         /\ Fine(find_import_symbol_address, c)
         /\ Fine(again_process_relocation, c)
<1> USE FineSoinfo, FineCup, FineNone
<1>1. Fine(is_gnu_hash, c) /\ Fine(resolve_symbol_address, c)
  BY DEF is_gnu_hash, resolve_symbol_address, Common
<1>2. Fine(elf_lookup, c)
  <2>1. Fine(Gets({"bucket_", "nbucket_", "chain_", "symtab_"}), c)
    BY DEF Common
  <2> QED BY <2>1 DEF elf_lookup
<1>3. GnuHash => api >= M
  BY DEF GnuHash, Device
<1>4. GnuHash => Fine(gnu_lookup, c)
  <2>1. api >= M => Fine(Gets({"gnu_maskwords_", "gnu_bloom_filter_", "gnu_shift2_",
                  "gnu_bucket_", "gnu_nbucket_", "gnu_chain_", "symtab_"}), c)
    BY Members, FineGets DEF FromM, Common
  <2> QED BY <1>2, <1>3, <2>1 DEF gnu_lookup
<1>5. Fine(find_export_symbol_address, c)
  BY <1>1, <1>2, <1>4 DEF find_export_symbol_address, find_export_symbol_by_name
<1>6. Fine(AllSymbols, c)
  <2>1. GnuHash => Fine(get_export_symbol_gnu_table_size, c)
    BY <1>1, <1>3, Members, FineGets DEF get_export_symbol_gnu_table_size, FromM, When
  <2>2. Fine(Gets({"symtab_"}), c) /\ Fine(Gets({"nchain_"}), c)
    BY DEF Common
  <2> QED BY <1>1, <2>1, <2>2 DEF AllSymbols
<1>7. Fine(find_export_symbol_by_prefix, c) /\ Fine(get_global_soinfo_export_symbols, c)
  BY <1>1, <1>6 DEF find_export_symbol_by_prefix, get_global_soinfo_export_symbols
<1>8. /\ Fine(Gets(Tables \cup {"symtab_"}), c) /\ Fine(Gets(Tables), c)
      /\ Fine(Gets({"load_bias"}), c) /\ Fine(Gets({"symtab_", "load_bias"}), c)
  BY DEF Common
<1>9. Fine(find_import_symbol_address, c)
  <2>1. Fine(find_import_symbol_index_by_name, c)
    BY <1>8 DEF find_import_symbol_index_by_name
  <2> QED BY <1>8, <2>1 DEF find_import_symbol_address
<1>10. Fine(again_process_relocation, c)
  <2>1. Fine(process_relocation, c)
    BY <1>8 DEF process_relocation
  <2>2. Fine(get_soname \cup Gets(Tables), c)
    BY <1>8
  <2> QED BY <2>1, <2>2 DEF again_process_relocation
<1> QED BY <1>5, <1>6, <1>7, <1>9, <1>10

(* The libraries and namespaces of the process.                            *)
LEMMA FineProcess ==
  ASSUME Device, NEW c
  PROVE  /\ Fine(Walk, c)
         /\ Fine(FindContainingLibrary, c)
         /\ Fine(FindSoinfoByName, c)
         /\ api >= N => /\ Fine(soinfo_list, c)
                        /\ Fine(FindSoinfoByNameInNamespace, c)
                        /\ Fine(get_primary_namespace, c)
                        /\ Fine(get_handle, c)
                        /\ Fine(get_secondary_namespaces, c)
                        /\ Fine(GetAllNamespace, c)
                        /\ Fine(FindNamespaceByName, c)
                        /\ Fine(get_name, c)
                        /\ Fine(GetNamespaceCallerAddress, c)
                        /\ Fine(get_global_group, c)
<1> USE FineSoinfo, FineCup, FineNone
<1>1. Fine(Walk, c)
  BY FineSymbolsOf DEF Walk, Common
<1>2. Fine(FindContainingLibrary, c) /\ Fine(FindSoinfoByName, c)
  BY <1>1 DEF FindContainingLibrary, FindSoinfoByName, Common
<1>3. ASSUME api >= N
      PROVE  /\ Fine(soinfo_list, c)
             /\ Fine(FindSoinfoByNameInNamespace, c)
             /\ Fine(get_primary_namespace, c)
             /\ Fine(get_handle, c)
             /\ Fine(get_secondary_namespaces, c)
             /\ Fine(GetAllNamespace, c)
             /\ Fine(FindNamespaceByName, c)
             /\ Fine(get_name, c)
             /\ Fine(GetNamespaceCallerAddress, c)
             /\ Fine(get_global_group, c)
  <2>1. Fine(soinfo_list, c)
    BY <1>3, MembersOfNamespace, FineUses, Versions DEF soinfo_list, Device
  <2>2. Fine(get_name, c)
    BY <1>3, MembersOfNamespace, FineUses DEF get_name, When
  <2>3. Fine(get_primary_namespace, c) /\ Fine(get_handle, c)
    BY <1>3, Members, FineGets DEF get_primary_namespace, get_handle
  <2>4. Fine(get_secondary_namespaces, c)
    <3>1. api < T => api \in N..(T - 1)
      BY <1>3, Versions DEF Device
    <3>2. ~(api >= T) => api < T
      BY Versions DEF Device
    <3> QED BY <3>1, <3>2, Members, FineGets DEF get_secondary_namespaces
  <2>5. Fine(Gets({"dt_flags_1_"}), c)
    BY <1>3, Versions DEF Device
  <2>6. Fine(GetAllNamespace, c)
    BY <1>1, <2>3 DEF GetAllNamespace
  <2>7. Fine(GetNamespaceCallerAddress, c)
    <3>1. Fine(Gets({"base", "size", "phnum", "phdr", "load_bias"}), c)
      BY DEF Common
    <3> QED BY <1>1, <2>3, <3>1 DEF GetNamespaceCallerAddress
  <2> QED BY <2>1, <2>2, <2>3, <2>4, <2>5, <2>6, <2>7
          DEF FindSoinfoByNameInNamespace, FindNamespaceByName, get_global_group
<1> QED BY <1>1, <1>2, <1>3

(* Changing namespaces and the global group, with the allocators' symbols. *)
LEMMA FineEdits ==
  ASSUME Device, NEW c, "SoinfoMemory" \in c
  PROVE  /\ Fine(LinkerBlockLock, c)
         /\ api >= N => /\ Fine(add_soinfo, c)
                        /\ Fine(remove_soinfo, c)
                        /\ Fine(add_secondary_namespace, c)
                        /\ Fine(remove_secondary_namespace, c)
                        /\ Fine(AddGlobalSoinfoToNamespace, c)
                        /\ Fine(RemoveSoinfoFromNamespace, c)
                        /\ Fine(ChangeSoinfoOfNamespace, c)
                        /\ Fine(add_ld_library_path, c)
         /\ api >= O => Fine(add_linked_namespace, c)
         /\ api >= Q => Fine(add_whitelisted_lib, c) /\ Fine(remove_whitelisted_lib, c)
<1>1. Fine(LinkerBlockLock, c)
  BY FineSymbolsOf
<1>2. ASSUME api >= N
      PROVE  /\ Fine(add_soinfo, c)
             /\ Fine(remove_soinfo, c)
             /\ Fine(add_secondary_namespace, c)
             /\ Fine(remove_secondary_namespace, c)
             /\ Fine(AddGlobalSoinfoToNamespace, c)
             /\ Fine(RemoveSoinfoFromNamespace, c)
             /\ Fine(ChangeSoinfoOfNamespace, c)
             /\ Fine(add_ld_library_path, c)
  <2> USE FineCup
  <2>1. Fine(soinfo_list, c) /\ Fine(get_primary_namespace, c)
    BY <1>2, FineProcess
  <2>2. Fine(get_secondary_namespaces, c)
    BY <1>2, FineProcess
  <2>3. Fine(set_dt_flags_1, c) /\ Fine(Gets({"dt_flags_1_"}), c)
    BY <1>2, FineSoinfo, Versions DEF Device
  <2>4. Fine(add_soinfo, c) /\ Fine(remove_soinfo, c)
    BY <1>1, <2>1 DEF add_soinfo, remove_soinfo, find_soinfo
  <2>5. /\ Fine(add_secondary_namespace, c)
        /\ Fine(remove_secondary_namespace, c)
        /\ Fine(remove_all_secondary_namespace, c)
    BY <1>1, <2>2 DEF add_secondary_namespace, remove_secondary_namespace,
                      remove_all_secondary_namespace
  <2>6. Fine(AddGlobalSoinfoToNamespace, c)
    BY <1>1, <2>3, <2>4, <2>5 DEF AddGlobalSoinfoToNamespace
  <2>7. Fine(IsGlobalSoinfo, c)
    BY <1>2, <2>3, Versions DEF IsGlobalSoinfo, Device
  <2>8. Fine(RemoveSoinfoFromNamespace, c)
    <3>1. Fine(LinkerBlockLock \cup remove_soinfo \cup IsGlobalSoinfo, c)
      BY <1>1, <2>4, <2>7
    <3> QED BY <2>3, <2>5, <3>1 DEF RemoveSoinfoFromNamespace
  <2>9. Fine(ChangeSoinfoOfNamespace, c)
    <3>1. Fine(Sets({"primary_namespace_"}), c)
      BY <1>2, Writable, FineSets
    <3>2. Fine(LinkerBlockLock \cup get_primary_namespace \cup remove_soinfo, c)
      BY <1>1, <2>1, <2>4
    <3> QED BY <2>4, <3>1, <3>2 DEF ChangeSoinfoOfNamespace
  <2>10. Fine(add_ld_library_path, c)
    <3>1. Fine(Uses({"ld_library_paths_"}), c)
      BY <1>2, MembersOfNamespace, FineUses
    <3> QED BY <1>1, <3>1 DEF add_ld_library_path
  <2> QED BY <2>4, <2>5, <2>6, <2>8, <2>9, <2>10
<1>3. api >= O => Fine(add_linked_namespace, c)
  <2>1. api >= O => /\ api \in O..O_MR1 => Fine(linked_namespacesO, c)
                    /\ api >= P => Fine(linked_namespaceP, c)
    BY MembersOfNamespace, FineUses, Versions
       DEF linked_namespacesO, linked_namespaceP, Device
  <2>2. api >= O => Fine(IF api <= O_MR1 THEN linked_namespacesO ELSE linked_namespaceP, c)
    BY <2>1, Versions DEF Device
  <2> QED BY <1>1, <2>2, FineCup DEF add_linked_namespace
<1>4. api >= Q => Fine(add_whitelisted_lib, c) /\ Fine(remove_whitelisted_lib, c)
  <2>1. api >= Q => Fine(get_whitelisted_libs, c)
    BY MembersOfNamespace, FineUses, Versions DEF get_whitelisted_libs, Device
  <2> QED BY <1>1, <2>1, FineCup DEF add_whitelisted_lib, remove_whitelisted_lib
<1> QED BY <1>1, <1>2, <1>3, <1>4

-----------------------------------------------------------------------------
(* A call of that name, and its accesses: none is null, and none of the    *)
(* symbols is missing with the categories it needs.                        *)
Serves(name, accesses) ==
  /\ AllServed(accesses)
  /\ \A c \in SUBSET Categories :
       Needs(name, c) \subseteq c => Provided(accesses, c)

LEMMA Serving ==
  ASSUME NEW name, NEW accesses,
         \A c \in SUBSET Categories : Needs(name, c) \subseteq c => Fine(accesses, c)
  PROVE  Serves(name, accesses)
<1>1. Needs(name, Categories) \subseteq Categories
  BY DEF Needs, Categories, When
<1>2. Fine(accesses, Categories)
  BY <1>1
<1> QED BY <1>2 DEF Serves, Fine

LEMMA ServingFrom ==
  ASSUME NEW name, NEW accesses, NEW version, api >= version => Serves(name, accesses)
  PROVE  Serves(name, From(version, accesses))
BY DEF From, When, Serves, AllServed, Provided

LEMMA AccessKeeps ==
  ASSUME NEW name, NEW accesses, Access(name, accesses), ready',
         UNCHANGED <<api, abi, flags>>, AllServed(accesses),
         Needs(name, categories') \subseteq categories' => Provided(accesses, categories')
  PROVE  EveryCallServed' /\ CategoriesSuffice'
<1>1. lost' = {}
  BY DEF Access, AllServed
<1>2. missing' # {} => call' = name
  BY DEF Access
<1>3. Provided(accesses, categories') => missing' = {}
  BY DEF Access, Provided
<1>4. (Needs(call, categories))' = Needs(call', categories')
  BY DEF Needs, When, M, O
<1>5. CategoriesSuffice'
  BY <1>2, <1>3, <1>4 DEF CategoriesSuffice
<1> QED BY <1>1, <1>5 DEF EveryCallServed

LEMMA LinkerCallKeeps ==
  ASSUME NEW name, NEW accesses, Called(name, accesses), Serves(name, accesses),
         categories \subseteq Categories
  PROVE  EveryCallServed' /\ CategoriesSuffice'
<1>1. /\ Access(name, accesses) /\ ready' = TRUE /\ UNCHANGED <<api, abi, flags>>
      /\ categories' = categories
  BY DEF Called
<1>2. Needs(name, categories') \subseteq categories' => Provided(accesses, categories')
  BY <1>1 DEF Serves
<1> QED BY <1>1, <1>2, AccessKeeps DEF Serves

(* The categories that each kind of call needs.                            *)
LEMMA NeedsOf ==
  ASSUME NEW c
  PROVE  /\ Needs("soinfo_find_handle", c) \subseteq c => "SoinfoHandler" \in c
         /\ \A name \in {"get_linker_soinfo", "call_dlopen_inside", "dlsym_inside",
                         "relocation"} :
              Needs(name, c) \subseteq c => "DlopenDlSym" \in c
         /\ api < M /\ Needs("soinfo_is_global", c) \subseteq c => "DlopenDlSym" \in c
         /\ Needs("call_dlsym_inside", c) \subseteq c =>
              "DlopenDlSym" \in c /\ "SoinfoHandler" \in c
         /\ \A name \in {"soinfo_add_to_global", "soinfo_remove_global"} :
              Needs(name, c) \subseteq c =>
                "SoinfoMemory" \in c /\ (api < M => "DlopenDlSym" \in c)
         /\ Needs("namespace_write", c) \subseteq c => "SoinfoMemory" \in c
         /\ Needs("namespace_create", c) \subseteq c =>
              {"Namespace", "SoinfoMemory"} \subseteq c /\ (api < O => "DlopenDlSym" \in c)
         /\ Needs("set_ld_debug_verbosity", c) \subseteq c => "Debug" \in c
         /\ "Namespace" \in c /\ Needs("init_fakelinker", c) \subseteq c =>
              "DlopenDlSym" \in c
<1> USE DEF Needs, When
<1>1. Needs("soinfo_find_handle", c) \subseteq c => "SoinfoHandler" \in c
  OBVIOUS
<1>2. \A name \in {"get_linker_soinfo", "call_dlopen_inside", "dlsym_inside", "relocation"} :
        Needs(name, c) \subseteq c => "DlopenDlSym" \in c
  OBVIOUS
<1>3. api < M /\ Needs("soinfo_is_global", c) \subseteq c => "DlopenDlSym" \in c
  OBVIOUS
<1>4. Needs("call_dlsym_inside", c) \subseteq c => "DlopenDlSym" \in c /\ "SoinfoHandler" \in c
  OBVIOUS
<1>5. \A name \in {"soinfo_add_to_global", "soinfo_remove_global"} :
        Needs(name, c) \subseteq c => "SoinfoMemory" \in c /\ (api < M => "DlopenDlSym" \in c)
  OBVIOUS
<1>6. Needs("namespace_write", c) \subseteq c => "SoinfoMemory" \in c
  OBVIOUS
<1>7. Needs("namespace_create", c) \subseteq c =>
        {"Namespace", "SoinfoMemory"} \subseteq c /\ (api < O => "DlopenDlSym" \in c)
  OBVIOUS
<1>8. Needs("set_ld_debug_verbosity", c) \subseteq c => "Debug" \in c
  OBVIOUS
<1>9. "Namespace" \in c /\ Needs("init_fakelinker", c) \subseteq c => "DlopenDlSym" \in c
  OBVIOUS
<1> HIDE DEF Needs, When
<1> QED BY <1>1, <1>2, <1>3, <1>4, <1>5, <1>6, <1>7, <1>8, <1>9

(* Calls that need nothing but the base.                                   *)
LEMMA ServesReads ==
  ASSUME Device, NEW name
  PROVE  /\ \A X \in {get_soname \cup realpath \cup Gets({"base", "size", "flags_"})
                        \cup When(api >= N, get_handle),
                      soinfo_to_string, GetAllSoinfo, get_soname, realpath,
                      find_import_symbol_address, find_export_symbol_address,
                      find_export_symbol_by_prefix, FindContainingLibrary,
                      FindSoinfoByName} : Serves(name, X)
         /\ \A X \in {FindContainingLibrary, FindSoinfoByNameInNamespace, get_handle,
                      get_primary_namespace, FindNamespaceByName, get_name,
                      GetAllNamespace, soinfo_list, GetNamespaceCallerAddress,
                      get_global_group} : Serves(name, From(N, X))
         /\ Serves(name, From(O, IF api >= P THEN linked_namespaceP
                                             ELSE linked_namespacesO))
         /\ Serves(name, From(Q, get_whitelisted_libs))
         /\ Serves(name, {})
<1>1. Serves(name, get_soname \cup realpath \cup Gets({"base", "size", "flags_"})
                     \cup When(api >= N, get_handle))
  <2> SUFFICES ASSUME NEW c
               PROVE  Fine(get_soname \cup realpath \cup Gets({"base", "size", "flags_"})
                             \cup When(api >= N, get_handle), c)
    BY Serving
  <2>1. Fine(Gets({"base", "size", "flags_"}), c)
    BY FineSoinfo DEF Common
  <2>2. Fine(When(api >= N, get_handle), c)
    BY FineProcess, FineNone DEF When
  <2>3. Fine(get_soname \cup realpath, c)
    BY FineSoinfo, FineCup
  <2> QED BY <2>1, <2>2, <2>3, FineCup
<1>2. Serves(name, soinfo_to_string)
  <2> SUFFICES ASSUME NEW c PROVE Fine(soinfo_to_string, c)
    BY Serving
  <2> DEFINE plain == Gets({"phdr", "phnum", "base", "size", "dynamic", "flags_", "strtab_",
             "symtab_", "nbucket_", "nchain_", "bucket_", "chain_",
             "preinit_array_count_", "init_array_count_", "fini_array_",
             "fini_array_count_", "constructors_called", "load_bias",
             "has_DT_SYMBOLIC", "version_"})
  <2>1. Fine(get_soname, c)
    BY FineSoinfo
  <2>2. Fine(plain, c)
    BY FineSoinfo DEF Common
  <2>3. Fine(Constructors, c)
    BY Members, FineGets, Versions DEF Constructors, Device
  <2>4. Fine(When(~LP64, Gets({"plt_got_"})), c)
    BY FineSoinfo, FineNone DEF Common, When
  <2>5. Fine(When(api >= N, Gets({"handle_"})), c)
    BY Members, FineGets, FineNone DEF When
  <2>6. Fine(When(api >= M, Gets({"dt_flags_1_"})), c)
    BY FineSoinfo, FineNone DEF When
  <2>7. Fine(When(api >= L_MR1, Gets({"file_offset_", "strtab_size_"}) \cup get_rtld_flags), c)
    <3>1. api >= L_MR1 => Fine(get_rtld_flags, c)
      <4>1. api >= M => Fine(Gets({"rtld_flags_"}), c)
        BY Members, FineGets DEF FromM
      <4>2. api >= L_MR1 /\ ~(api >= M) => Fine(Gets({"rtld_flags_L"}), c)
        BY Members, FineGets, Versions DEF Device
      <4> QED BY <4>1, <4>2 DEF get_rtld_flags
    <3>2. api >= L_MR1 => Fine(Gets({"file_offset_", "strtab_size_"}), c)
      BY Members, FineGets
    <3> QED BY <3>1, <3>2, FineCup, FineNone DEF When
  <2> HIDE DEF plain
  <2>8. Fine(get_soname \cup Constructors \cup plain, c)
    BY <2>1, <2>2, <2>3, FineCup
  <2>9. Fine(get_soname \cup Constructors \cup plain \cup When(~LP64, Gets({"plt_got_"}))
               \cup When(api >= N, Gets({"handle_"})), c)
    BY <2>4, <2>5, <2>8, FineCup
  <2> QED BY <2>6, <2>7, <2>9, FineCup DEF soinfo_to_string, plain
<1>3. \A X \in {GetAllSoinfo, get_soname, realpath, find_import_symbol_address,
                find_export_symbol_address, find_export_symbol_by_prefix,
                FindContainingLibrary, FindSoinfoByName} : Serves(name, X)
  BY FineSoinfo, FineLookups, FineProcess, Serving DEF GetAllSoinfo
<1>4. \A X \in {FindContainingLibrary, FindSoinfoByNameInNamespace, get_handle,
                get_primary_namespace, FindNamespaceByName, get_name,
                GetAllNamespace, soinfo_list, GetNamespaceCallerAddress,
                get_global_group} : Serves(name, From(N, X))
  <2>1. ASSUME api >= N,
               NEW X \in {FindContainingLibrary, FindSoinfoByNameInNamespace, get_handle,
                get_primary_namespace, FindNamespaceByName, get_name,
                GetAllNamespace, soinfo_list, GetNamespaceCallerAddress,
                get_global_group}
        PROVE  Serves(name, X)
    BY <2>1, FineProcess, Serving
  <2> QED BY <2>1, ServingFrom
<1>5. Serves(name, From(O, IF api >= P THEN linked_namespaceP ELSE linked_namespacesO))
  <2>1. ASSUME api >= O, NEW c
        PROVE  Fine(IF api >= P THEN linked_namespaceP ELSE linked_namespacesO, c)
    BY <2>1, MembersOfNamespace, FineUses, Versions
       DEF linked_namespaceP, linked_namespacesO, Device
  <2> QED BY <2>1, Serving, ServingFrom
<1>6. Serves(name, From(Q, get_whitelisted_libs))
  <2>1. ASSUME api >= Q, NEW c PROVE Fine(get_whitelisted_libs, c)
    BY <2>1, MembersOfNamespace, FineUses, Versions DEF get_whitelisted_libs, Device
  <2> QED BY <2>1, Serving, ServingFrom
<1>7. Serves(name, {})
  BY FineNone, Serving
<1> QED BY <1>1, <1>2, <1>3, <1>4, <1>5, <1>6, <1>7

(* Calls that go through symbols of the linker.                            *)
LEMMA ServesSymbols ==
  ASSUME Device
  PROVE  /\ Serves("soinfo_find_handle", From(N, SoinfoFromHandle))
         /\ Serves("get_linker_soinfo", GetLinkerSoinfo)
         /\ Serves("get_linker_soinfo", GetLinkerSoinfo \cup find_export_symbol_address)
         /\ Serves("soinfo_is_global", IsGlobalSoinfo)
         /\ Serves("call_dlopen_inside", CallDlopen)
         /\ Serves("dlsym_inside", CallDlsym)
         /\ Serves("call_dlsym_inside",
                   FindSymbolByDlsym \cup When(api >= N, SoinfoFromHandle))
         /\ Serves("relocation", ManualRelinkLibrary)
         /\ Serves("relocation", ManualRelinkLibraries)
         /\ Serves("relocation", FindSoinfoByName \cup ManualRelinkLibrary)
<1> USE Versions
<1>1. ASSUME NEW c, "DlopenDlSym" \in c
      PROVE  /\ Fine(GetLinkerSoinfo, c)
             /\ Fine(GetLinkerSoinfo \cup find_export_symbol_address, c)
             /\ Fine(CallDlopen, c)
             /\ Fine(CallDlsym, c)
             /\ Fine(ManualRelinkLibrary, c)
             /\ Fine(ManualRelinkLibraries, c)
             /\ Fine(FindSoinfoByName \cup ManualRelinkLibrary, c)
  <2>1. /\ Fine(Symbols({"linker_soinfo"}), c) /\ Fine(Symbols({"g_dl_mutex"}), c)
        /\ Fine(Dlerror, c)
    BY <1>1, FineSymbolsOf DEF Dlerror
  <2>2. api \in N..N_MR1 \/ api >= O \/ api < N
    BY DEF Device
  <2>3. /\ api \in N..N_MR1 =>
             Fine(Symbols({"dlopenN"}), c) /\ Fine(Symbols({"dlsymN"}), c)
        /\ api >= O => Fine(Symbols({"dlopenO"}), c) /\ Fine(Symbols({"dlsymO"}), c)
        /\ api < N => Fine(Symbols({"dlopen"}), c)
    BY <1>1, FineSymbolsOf
  <2>4. api >= N => Fine(CallDoDlopenN, c) /\ Fine(CallDoDlsymN, c)
    <3>1. api >= N /\ ~(api >= O) => api \in N..N_MR1
      BY DEF Device
    <3>2. api \in N..N_MR1 => /\ Fine(Symbols({"dlopenN"}) \cup Dlerror, c)
                              /\ Fine(Symbols({"dlsymN"}) \cup Dlerror, c)
      BY <2>1, <2>3, FineCup
    <3> QED BY <2>3, <3>1, <3>2 DEF CallDoDlopenN, CallDoDlsymN
  <2>5. Fine(CallDlopen, c)
    <3>1. ~(api >= N) => api < N
      BY DEF Device
    <3> QED BY <2>3, <2>4, <3>1 DEF CallDlopen, CallDoDlopen
  <2>6. Fine(CallDlsym, c)
    BY <2>4, FineNone DEF CallDlsym, When
  <2>7. Fine(GetLinkerSoinfo, c) /\ Fine(GetLinkerSoinfo \cup find_export_symbol_address, c)
    BY <2>1, FineLookups, FineCup DEF GetLinkerSoinfo
  <2>8. Fine(ManualRelinkLibrary, c)
    <3>1. Fine(get_global_soinfo_export_symbols \cup get_soname, c)
      BY FineLookups, FineSoinfo, FineCup
    <3>2. Fine(Symbols({"g_dl_mutex"}) \cup again_process_relocation, c)
      BY <2>1, FineLookups, FineCup
    <3>3. ManualRelinkLibrary =
            (get_global_soinfo_export_symbols \cup get_soname)
            \cup (Symbols({"g_dl_mutex"}) \cup again_process_relocation)
      BY DEF ManualRelinkLibrary
    <3> QED BY <3>1, <3>2, <3>3, FineCup
  <2>9. /\ Fine(ManualRelinkLibraries, c)
        /\ Fine(FindSoinfoByName \cup ManualRelinkLibrary, c)
    BY <2>8, FineProcess, FineCup DEF ManualRelinkLibraries
  <2> QED BY <2>5, <2>6, <2>7, <2>8, <2>9
<1>2. /\ Serves("get_linker_soinfo", GetLinkerSoinfo)
      /\ Serves("get_linker_soinfo", GetLinkerSoinfo \cup find_export_symbol_address)
  BY <1>1, NeedsOf, Serving
<1>3. Serves("call_dlopen_inside", CallDlopen) /\ Serves("dlsym_inside", CallDlsym)
  BY <1>1, NeedsOf, Serving
<1>4. /\ Serves("relocation", ManualRelinkLibrary)
      /\ Serves("relocation", ManualRelinkLibraries)
      /\ Serves("relocation", FindSoinfoByName \cup ManualRelinkLibrary)
  BY <1>1, NeedsOf, Serving
<1>5. ASSUME NEW c, "SoinfoHandler" \in c, api >= N PROVE Fine(SoinfoFromHandle, c)
  BY <1>5, FineSymbolsOf DEF SoinfoFromHandle
<1>6. Serves("soinfo_find_handle", From(N, SoinfoFromHandle))
  BY <1>5, NeedsOf, Serving, ServingFrom
<1>7. Serves("soinfo_is_global", IsGlobalSoinfo)
  <2>1. ASSUME NEW c, api < M => "DlopenDlSym" \in c PROVE Fine(IsGlobalSoinfo, c)
    <3>1. ~(api >= M) => api < M
      BY DEF Device
    <3>2. api < M => Fine(Symbols({"g_ld_preloads"}), c)
      BY <2>1, FineSymbolsOf
    <3>3. api >= M => Fine(Gets({"dt_flags_1_"}), c)
      BY FineSoinfo
    <3> QED BY <3>1, <3>2, <3>3 DEF IsGlobalSoinfo
  <2> QED BY <2>1, NeedsOf, Serving
<1>8. ASSUME NEW c, "DlopenDlSym" \in c, "SoinfoHandler" \in c
      PROVE  Fine(FindSymbolByDlsym \cup When(api >= N, SoinfoFromHandle), c)
  <2>1. Fine(When(api >= N, SoinfoFromHandle), c)
    BY <1>5, <1>8, FineNone DEF When
  <2>2. api >= N => Fine(CallDoDlsymN, c)
    BY <1>1, <1>8 DEF CallDlsym, When
  <2>3. api >= N => Fine(get_handle, c) /\ Fine(Gets({"load_bias"}), c)
    BY FineProcess, FineSoinfo DEF Common
  <2>4. Fine(FindSymbolByDlsym, c)
    BY <2>2, <2>3, FineCup, FineNone DEF FindSymbolByDlsym, When
  <2> QED BY <2>1, <2>4, FineCup
<1>9. Serves("call_dlsym_inside", FindSymbolByDlsym \cup When(api >= N, SoinfoFromHandle))
  BY <1>8, NeedsOf, Serving
<1> QED BY <1>2, <1>3, <1>4, <1>6, <1>7, <1>9

(* Calls that write to the linker's memory.                                *)
LEMMA ServesWrites ==
  ASSUME Device
  PROVE  /\ Serves("soinfo_add_to_global", AddSoinfoToGlobal)
         /\ Serves("soinfo_remove_global", RemoveGlobalSoinfo)
         /\ \A X \in {AddGlobalSoinfoToNamespace, add_soinfo, RemoveSoinfoFromNamespace,
                      add_ld_library_path, add_secondary_namespace,
                      remove_secondary_namespace, ChangeSoinfoOfNamespace} :
              Serves("namespace_write", From(N, X))
         /\ Serves("namespace_write", From(O, add_linked_namespace))
         /\ Serves("namespace_write", From(Q, add_whitelisted_lib))
         /\ Serves("namespace_write", From(Q, remove_whitelisted_lib))
         /\ api >= N => Serves("namespace_create", CallCreateNamespace)
<1> USE Versions
<1>1. ASSUME NEW c, "SoinfoMemory" \in c, api < M => "DlopenDlSym" \in c
      PROVE  Fine(AddSoinfoToGlobal, c) /\ Fine(RemoveGlobalSoinfo, c)
  <2> DEFINE flag == IF api >= M THEN set_dt_flags_1 \cup Gets({"dt_flags_1_"})
                                 ELSE Symbols({"g_ld_preloads"})
  <2>1. Fine(flag, c)
    <3>1. ~(api >= M) => api < M
      BY DEF Device
    <3>2. api < M => Fine(Symbols({"g_ld_preloads"}), c)
      BY <1>1, FineSymbolsOf
    <3>3. api >= M => Fine(set_dt_flags_1 \cup Gets({"dt_flags_1_"}), c)
      BY FineSoinfo, FineCup
    <3> QED BY <3>1, <3>2, <3>3
  <2>2. Fine(When(api >= N, GetAllNamespace \cup add_soinfo \cup add_secondary_namespace), c)
    BY <1>1, FineProcess, FineEdits, FineCup, FineNone DEF When
  <2>3. Fine(When(api >= N,
                  GetAllNamespace \cup remove_soinfo \cup remove_secondary_namespace), c)
    BY <1>1, FineProcess, FineEdits, FineCup, FineNone DEF When
  <2>4. Fine(LinkerBlockLock, c)
    BY <1>1, FineEdits
  <2> HIDE DEF flag
  <2>5. Fine(LinkerBlockLock \cup flag, c)
    BY <2>1, <2>4, FineCup
  <2> QED BY <2>2, <2>3, <2>5, FineCup DEF AddSoinfoToGlobal, RemoveGlobalSoinfo, flag
<1>2. Serves("soinfo_add_to_global", AddSoinfoToGlobal)
  BY <1>1, NeedsOf, Serving
<1>3. Serves("soinfo_remove_global", RemoveGlobalSoinfo)
  BY <1>1, NeedsOf, Serving
<1>4. \A X \in {AddGlobalSoinfoToNamespace, add_soinfo, RemoveSoinfoFromNamespace,
                add_ld_library_path, add_secondary_namespace,
                remove_secondary_namespace, ChangeSoinfoOfNamespace} :
        Serves("namespace_write", From(N, X))
  <2>1. ASSUME api >= N,
               NEW X \in {AddGlobalSoinfoToNamespace, add_soinfo, RemoveSoinfoFromNamespace,
                          add_ld_library_path, add_secondary_namespace,
                          remove_secondary_namespace, ChangeSoinfoOfNamespace}
        PROVE  Serves("namespace_write", X)
    BY <2>1, FineEdits, NeedsOf, Serving
  <2> QED BY <2>1, ServingFrom
<1>5. Serves("namespace_write", From(O, add_linked_namespace))
  BY FineEdits, NeedsOf, Serving, ServingFrom
<1>6. /\ Serves("namespace_write", From(Q, add_whitelisted_lib))
      /\ Serves("namespace_write", From(Q, remove_whitelisted_lib))
  BY FineEdits, NeedsOf, Serving, ServingFrom
<1>7. api >= N => Serves("namespace_create", CallCreateNamespace)
  <2>1. ASSUME api >= N, NEW c, {"Namespace", "SoinfoMemory"} \subseteq c,
               api < O => "DlopenDlSym" \in c
        PROVE  Fine(CallCreateNamespace, c)
    <3>1. Fine(LinkerBlockLock, c)
      BY <2>1, FineEdits
    <3>2. api >= O => Fine(Symbols({"create_namespaceO"}), c)
      BY <2>1, FineSymbolsOf
    <3>3. ~(api >= O) => api \in N..N_MR1 /\ api < O
      BY <2>1 DEF Device
    <3>4. ~(api >= O) => Fine(Symbols({"create_namespaceN"}), c) /\ Fine(Dlerror, c)
      BY <2>1, <3>3, FineSymbolsOf DEF Dlerror
    <3>5. ~(api >= O) => Fine(Symbols({"create_namespaceN"}) \cup Dlerror, c)
      BY <3>4, FineCup
    <3> QED BY <3>1, <3>2, <3>5, FineCup DEF CallCreateNamespace
  <2> QED BY <2>1, NeedsOf, Serving
<1> QED BY <1>2, <1>3, <1>4, <1>5, <1>6, <1>7

(* init_fakelinker finds ld-android.so before it looks for what it exports.*)
LEMMA InitKeeps ==
  ASSUME Device, NEW asked \in SUBSET Categories, init_fakelinker(asked)
  PROVE  EveryCallServed' /\ CategoriesSuffice'
<1> DEFINE exported == \E s \in Exported : InRange(s) /\ Category(s) \in asked
<1>1. ASSUME NEW c, "DlopenDlSym" \in c
      PROVE  Fine(FindSoinfoByName, c) /\ Fine(GetLinkerSoinfo \cup find_export_symbol_address, c)
  <2>1. Fine(GetLinkerSoinfo, c)
    BY <1>1, FineSymbolsOf DEF GetLinkerSoinfo
  <2> QED BY <2>1, FineProcess, FineLookups, FineCup
<1>2. ASSUME NEW c, "DlopenDlSym" \in asked \/ exported => "DlopenDlSym" \in c
      PROVE  Fine(LoadSymbol(asked), c)
  <2>1. "DlopenDlSym" \in asked => Fine(FindSoinfoByName, c)
    BY <1>1, <1>2
  <2>2. exported => Fine(GetLinkerSoinfo \cup find_export_symbol_address, c)
    BY <1>1, <1>2
  <2> HIDE DEF exported
  <2>3. /\ Fine(When("DlopenDlSym" \in asked, FindSoinfoByName), c)
        /\ Fine(When(exported, GetLinkerSoinfo \cup find_export_symbol_address), c)
    BY <2>1, <2>2, FineNone DEF When
  <2> QED BY <2>3, FineCup DEF LoadSymbol, exported
<1>3. exported => "DlopenDlSym" \in asked \/ "Namespace" \in asked
  BY DEF Exported, Category, Allocators, NamespaceAllocators
<1> HIDE DEF exported
<1>4. AllServed(LoadSymbol(asked))
  BY <1>2 DEF Fine, Categories
<1>5. Needs("init_fakelinker", asked) \subseteq asked => Provided(LoadSymbol(asked), asked)
  BY <1>2, <1>3, NeedsOf DEF Fine
<1>6. /\ Access("init_fakelinker", LoadSymbol(asked)) /\ ready' /\ categories' = asked
      /\ UNCHANGED <<api, abi, flags>>
  BY DEF init_fakelinker
<1> QED BY <1>4, <1>5, <1>6, AccessKeeps

LEMMA LibrariesKeep ==
  ASSUME Device, categories \subseteq Categories, Libraries
  PROVE  EveryCallServed' /\ CategoriesSuffice'
<1> USE LinkerCallKeeps
<1>1. CASE soinfo_find \/ soinfo_find_in_namespace
  BY <1>1, ServesReads, ServesSymbols DEF soinfo_find, soinfo_find_in_namespace
<1>2. CASE soinfo_get_attribute \/ soinfo_print \/ soinfo_query_all
  BY <1>2, ServesReads DEF soinfo_get_attribute, soinfo_print, soinfo_query_all
<1>3. CASE soinfo_get_handle \/ soinfo_get_name \/ soinfo_get_realpath
  BY <1>3, ServesReads DEF soinfo_get_handle, soinfo_get_name, soinfo_get_realpath
<1>4. CASE soinfo_is_global \/ soinfo_get_linker_soinfo \/ get_linker_export_symbol
  BY <1>4, ServesSymbols
     DEF soinfo_is_global, soinfo_get_linker_soinfo, get_linker_export_symbol
<1>5. CASE \/ soinfo_get_import_symbol_address \/ soinfo_get_export_symbol_address
           \/ soinfo_get_export_symbol_address_prefix
  BY <1>5, ServesReads
     DEF soinfo_get_import_symbol_address, soinfo_get_export_symbol_address,
         soinfo_get_export_symbol_address_prefix
<1>6. CASE call_dlopen_inside \/ dlsym_inside \/ call_dlsym_inside
  BY <1>6, ServesSymbols DEF call_dlopen_inside, dlsym_inside, call_dlsym_inside
<1>7. CASE soinfo_add_to_global \/ soinfo_remove_global
  BY <1>7, ServesWrites DEF soinfo_add_to_global, soinfo_remove_global
<1>8. CASE \/ call_manual_relocation_by_soinfo \/ call_manual_relocation_by_soinfos
           \/ call_manual_relocation_by_name \/ call_manual_relocation_by_names
  BY <1>8, ServesSymbols
     DEF call_manual_relocation_by_soinfo, call_manual_relocation_by_soinfos,
         call_manual_relocation_by_name, call_manual_relocation_by_names
<1> QED BY <1>1, <1>2, <1>3, <1>4, <1>5, <1>6, <1>7, <1>8 DEF Libraries

(* Below N android_namespace_create goes through a symbol of N; otherwise  *)
(* it needs what it needs there.                                           *)
LEMMA CreateKeeps ==
  ASSUME Device, categories \subseteq Categories, android_namespace_create
  PROVE  EveryCallServed' /\ CategoriesSuffice'
<1>1. CASE api >= N
  BY <1>1, LinkerCallKeeps, ServesWrites DEF android_namespace_create
<1>2. CASE ~(api >= N)
  <2>1. /\ Access("namespace_create", CallCreateNamespace)
        /\ categories' = categories /\ api' = api
    BY DEF android_namespace_create, Called
  <2>2. api < N
    BY <1>2, Versions DEF Device
  <2>3. lost' # {} \/ missing' # {} => call' = "namespace_create"
    BY <2>1 DEF Access
  <2>4. EveryCallServed'
    BY <2>1, <2>2, <2>3 DEF EveryCallServed
  <2>5. ASSUME Needs("namespace_create", categories) \subseteq categories
        PROVE  missing' = {}
    <3>1. {"SoinfoMemory", "DlopenDlSym"} \subseteq categories
      BY <2>2, <2>5, NeedsOf, Versions DEF Device
    <3>2. Provided(LinkerBlockLock, categories) /\ Provided(Dlerror, categories)
      BY <3>1, FineSymbolsOf DEF Dlerror, Fine
    <3>3. Provided(Symbols({"create_namespaceN"}), categories)
      BY <2>2, Versions
         DEF Provided, Symbols, Aborts, InRange, NamespaceAllocators, Device
    <3>4. CallCreateNamespace =
            LinkerBlockLock \cup (Symbols({"create_namespaceN"}) \cup Dlerror)
      BY <2>2, Versions DEF CallCreateNamespace, Device
    <3>5. Provided(CallCreateNamespace, categories)
      BY <3>2, <3>3, <3>4 DEF Provided
    <3> QED BY <2>1, <3>5 DEF Access, Provided
  <2>6. (Needs("namespace_create", categories))' = Needs("namespace_create", categories)
    BY <2>1 DEF Needs, When, M, O
  <2>7. CategoriesSuffice'
    BY <2>1, <2>3, <2>5, <2>6 DEF CategoriesSuffice
  <2> QED BY <2>4, <2>7
<1> QED BY <1>1, <1>2

(* Up to U the categories suffice for the verbosity as well.               *)
LEMMA VerbosityKeeps ==
  ASSUME Device, categories \subseteq Categories, set_ld_debug_verbosity
  PROVE  EveryCallServed' /\ CategoriesSuffice'
<1> DEFINE accesses == {a \in Symbols({"g_ld_debug_verbosity", "g_linker_debug_config"}) :
                          InRange(a[2])}
<1>1. /\ Access("set_ld_debug_verbosity", accesses)
      /\ ready' = TRUE /\ categories' = categories
      /\ UNCHANGED <<api, abi, flags>>
  BY DEF set_ld_debug_verbosity, Called
<1>2. AllServed(accesses)
  BY DEF AllServed, Symbols, Served
<1>3. CASE api <= U
  <2>1. ASSUME "Debug" \in categories PROVE Provided(accesses, categories)
    <3>1. \A s \in {"g_ld_debug_verbosity", "g_linker_debug_config"} : ~Aborts(s, categories)
      BY <1>3, <2>1 DEF Aborts, OnDevice, Category, Allocators, NamespaceAllocators
    <3> QED BY <3>1 DEF Provided, Symbols
  <2> HIDE DEF accesses
  <2> QED BY <1>1, <1>2, <2>1, NeedsOf, AccessKeeps
<1>4. CASE ~(api <= U)
  <2>1. api >= V /\ api' = api
    BY <1>1, <1>4, Versions DEF Device
  <2> HIDE DEF accesses
  <2>2. lost' = {} /\ (missing' # {} => call' = "set_ld_debug_verbosity")
    BY <1>1, <1>2 DEF Access, AllServed
  <2> QED BY <2>1, <2>2 DEF EveryCallServed, CategoriesSuffice
<1> QED BY <1>3, <1>4

LEMMA NamespacesKeep ==
  ASSUME Device, categories \subseteq Categories, Namespaces
  PROVE  EveryCallServed' /\ CategoriesSuffice'
<1>1. CASE android_namespace_create
  BY <1>1, CreateKeeps
<1>2. CASE set_ld_debug_verbosity
  BY <1>2, VerbosityKeeps
<1> USE LinkerCallKeeps
<1>3. CASE \/ android_namespace_find \/ android_namespace_get_name
           \/ android_namespace_query_all \/ android_namespace_get_all_soinfo
  BY <1>3, ServesReads
     DEF android_namespace_find, android_namespace_get_name,
         android_namespace_query_all, android_namespace_get_all_soinfo
<1>4. CASE \/ android_namespace_get_caller_address \/ android_namespace_get_link_namespace
           \/ android_namespace_get_global_soinfos \/ android_namespace_get_white_list
  BY <1>4, ServesReads
     DEF android_namespace_get_caller_address, android_namespace_get_link_namespace,
         android_namespace_get_global_soinfos, android_namespace_get_white_list
<1>5. CASE \/ android_namespace_add_default_library_path
           \/ android_namespace_add_permitted_library_path
  BY <1>5, ServesReads
     DEF android_namespace_add_default_library_path,
         android_namespace_add_permitted_library_path
<1>6. CASE \/ android_namespace_add_global_soinfo \/ android_namespace_add_soinfo
           \/ android_namespace_remove_soinfo \/ android_namespace_add_ld_library_path
  BY <1>6, ServesWrites
     DEF android_namespace_add_global_soinfo, android_namespace_add_soinfo,
         android_namespace_remove_soinfo, android_namespace_add_ld_library_path
<1>7. CASE \/ android_namespace_add_soinfo_whitelist \/ android_namespace_remove_whitelist
           \/ android_namespace_add_linked_namespace
  BY <1>7, ServesWrites
     DEF android_namespace_add_soinfo_whitelist, android_namespace_remove_whitelist,
         android_namespace_add_linked_namespace
<1>8. CASE \/ soinfo_add_second_namespace \/ soinfo_remove_second_namespace
           \/ soinfo_change_namespace
  BY <1>8, ServesWrites
     DEF soinfo_add_second_namespace, soinfo_remove_second_namespace,
         soinfo_change_namespace
<1> QED BY <1>1, <1>2, <1>3, <1>4, <1>5, <1>6, <1>7, <1>8 DEF Namespaces

(* A call changes neither the device nor what was loaded.                  *)
LEMMA CallsStay ==
  ASSUME Libraries \/ Namespaces
  PROVE  UNCHANGED <<api, abi, flags, categories>>
<1>1. \A name, accesses : Called(name, accesses) =>
        UNCHANGED <<api, abi, flags, categories>>
  BY DEF Called
<1>2. CASE Libraries
  BY <1>1, <1>2, Zenon
     DEF Libraries, soinfo_find, soinfo_find_in_namespace,
         soinfo_get_attribute, soinfo_print, soinfo_query_all, soinfo_get_handle,
         soinfo_get_name, soinfo_is_global, soinfo_get_realpath,
         soinfo_get_linker_soinfo, soinfo_get_import_symbol_address,
         soinfo_get_export_symbol_address, soinfo_get_export_symbol_address_prefix,
         call_dlopen_inside, dlsym_inside, call_dlsym_inside,
         get_linker_export_symbol, soinfo_add_to_global, soinfo_remove_global,
         call_manual_relocation_by_soinfo, call_manual_relocation_by_soinfos,
         call_manual_relocation_by_name, call_manual_relocation_by_names
<1>3. CASE Namespaces
  BY <1>1, <1>3, Zenon
     DEF Namespaces, android_namespace_find, android_namespace_get_name,
         android_namespace_query_all, android_namespace_create,
         android_namespace_get_all_soinfo, android_namespace_get_caller_address,
         android_namespace_get_link_namespace, android_namespace_get_global_soinfos,
         android_namespace_get_white_list, android_namespace_add_global_soinfo,
         android_namespace_add_soinfo, android_namespace_remove_soinfo,
         android_namespace_add_soinfo_whitelist, android_namespace_remove_whitelist,
         android_namespace_add_ld_library_path,
         android_namespace_add_default_library_path,
         android_namespace_add_permitted_library_path,
         android_namespace_add_linked_namespace, soinfo_add_second_namespace,
         soinfo_remove_second_namespace, soinfo_change_namespace,
         set_ld_debug_verbosity
<1> QED BY <1>2, <1>3

LayoutInv ==
  /\ Device
  /\ categories \subseteq Categories
  /\ EveryCallServed
  /\ CategoriesSuffice

LEMMA LayoutInvHolds == ExportSpec => []LayoutInv
<1>1. ExportInit => LayoutInv
  <2> SUFFICES ASSUME Init PROVE LayoutInv
    BY DEF ExportInit
  <2>1. Device
    BY TablesAssumption DEF Init, Device
  <2> QED BY <2>1 DEF Init, LayoutInv, EveryCallServed, CategoriesSuffice
<1>2. LayoutInv /\ [ExportNext]_exportVars => LayoutInv'
  <2> SUFFICES ASSUME LayoutInv, [ExportNext]_exportVars PROVE LayoutInv'
    OBVIOUS
  <2>1. CASE UNCHANGED vars
    BY <2>1 DEF vars, LayoutInv, Device, LP64, M, EveryCallServed, CategoriesSuffice, Needs, When,
                N, O, V
  <2>2. ASSUME UNCHANGED <<api, abi, flags>> PROVE Device'
    BY <2>2 DEF LayoutInv, Device, LP64, M
  <2>3. CASE \E asked \in Modes : init_fakelinker(asked)
    <3>1. PICK asked \in Modes : init_fakelinker(asked)
      BY <2>3
    <3>2. asked \in SUBSET Categories
      BY ModesAssumption
    <3>3. EveryCallServed' /\ CategoriesSuffice'
      BY <3>1, <3>2, InitKeeps DEF LayoutInv
    <3>4. Device' /\ categories' \subseteq Categories
      BY <2>2, <3>1, <3>2 DEF init_fakelinker
    <3>5. Categories' = Categories
      BY DEF Categories
    <3> QED BY <3>3, <3>4, <3>5 DEF LayoutInv
  <2>4. CASE Restart
    BY <2>2, <2>4 DEF Restart, LayoutInv, EveryCallServed, CategoriesSuffice
  <2>5. CASE Libraries \/ Namespaces
    <3>1. EveryCallServed' /\ CategoriesSuffice'
      BY <2>5, LibrariesKeep, NamespacesKeep DEF LayoutInv
    <3>2. UNCHANGED <<api, abi, flags, categories>>
      BY <2>5, CallsStay
    <3> QED BY <2>2, <3>1, <3>2 DEF LayoutInv, Categories
  <2>6. CASE Next
    BY <2>3, <2>4, <2>5, <2>6, Zenon DEF Next
  <2> QED BY <2>1, <2>6 DEF ExportNext, LinkerCall, ReaderStep, exportVars
<1> QED BY <1>1, <1>2, PTL DEF ExportSpec

(* Every exported call finds the functions of its version, its ABI and the *)
(* library's format, but for android_namespace_create below Android 7.     *)
THEOREM EveryCallServedHolds == ExportSpec => []EveryCallServed
<1>1. LayoutInv => EveryCallServed
  BY DEF LayoutInv
<1> QED BY <1>1, LayoutInvHolds, PTL

(* The categories a call is documented to need are enough for it, but for  *)
(* set_ld_debug_verbosity on Android 15.                                   *)
THEOREM CategoriesSufficeHolds == ExportSpec => []CategoriesSuffice
<1>1. LayoutInv => CategoriesSuffice
  BY DEF LayoutInv
<1> QED BY <1>1, LayoutInvHolds, PTL
=============================================================================
