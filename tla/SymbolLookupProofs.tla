------------------------- MODULE SymbolLookupProofs -------------------------
(***************************************************************************)
(* Proofs about SymbolLookup, for any libraries, tables, hash functions    *)
(* and dependencies.                                                       *)
(***************************************************************************)
EXTENDS SymbolLookup, FiniteSetTheorems, TLAPS

USE DEF flags, seen

Looking == pc \in {"probe", "chain", "sysv"}
Offered == Offers(lib, name, ver, versym)
OfferedBy(i) == Has(entries[i].lib)

(* Who asks, and what is left over between calls: nothing.                 *)
AskInv ==
  /\ Looking \/ pc = "next" => name \in Name
  /\ Looking => caller \in {"name", "group"}
  /\ pc = "next" => caller = "group"
  /\ pc \in {"idle", "walk", "list", "search"} =>
       caller = "none" /\ n = 0 /\ it = 1
  /\ pc # "found" => found = 0
  /\ caller = "name" => ver = NoVersion

(* Tables are used in libraries that have them.                            *)
TableInv ==
  /\ \A l \in flag : image[l].gnu
  /\ \A i \in DOMAIN entries : entries[i].gnu => image[entries[i].lib].gnu
  /\ pc \in {"probe", "chain"} => Here.gnu
  /\ pc = "sysv" => Here.sysv

(* A chain is in the bucket of the name, and what is before n in it is not *)
(* what is wanted; a list is too, and what it has passed comes after n.    *)
ChainInv ==
  pc = "chain" =>
    /\ n \in Hashed(Here)
    /\ GnuBucket(Here, At.name) = GnuBucket(Here, name)
    /\ \A i \in Offered : n <= i

SysvInv ==
  pc = "sysv" =>
    /\ n # 0 => SysvBucket(Here, At.name) = SysvBucket(Here, name)
    /\ \A i \in Offered : i <= n

(* The entries behind the search have not got the name.                    *)
ListInv ==
  caller = "group" =>
    /\ pc = "next" => \A i \in 1 .. it - 1 : OfferedBy(i) = {}
    /\ Looking => /\ it > 1 /\ entries[it - 1].lib = lib
                  /\ \A i \in 1 .. it - 2 : OfferedBy(i) = {}

(* A lookup that has not got the version table is in a library without     *)
(* FLAG_NEW_SOINFO; one of a relocation has it exactly if the flag is      *)
(* there, which g_dl_mutex sees to.                                        *)
VersymInv ==
  /\ Looking => versym \/ ~HasMinVersion(lib)
  /\ Looking /\ caller = "group" => (versym <=> HasMinVersion(lib))

Inv ==
  /\ TypeOK /\ AskInv /\ TableInv /\ ChainInv /\ SysvInv /\ ListInv /\ VersymInv
  /\ LookupExact /\ FirstOfGroup /\ FaultsOnlyUnlinked

-----------------------------------------------------------------------------
LEMMA Modulo ==
  ASSUME NEW x \in Nat, NEW y \in Nat \ {0}
  PROVE  x % y \in 0 .. y - 1
OBVIOUS

(* The libraries of a process.                                             *)
LEMMA LibraryType ==
  ASSUME process \in Process, NEW l \in Lib
  PROVE  /\ WellFormed(image[l])
         /\ image[l].sym \in Seq(Symbol)
         /\ Len(image[l].sym) \in Nat
         /\ \A i \in Index(image[l]) : image[l].sym[i].name \in Name
<1>1. WellFormed(image[l])
  BY LookupAssumption DEF image
<1>2. image[l].sym \in Seq(Symbol)
  BY <1>1 DEF WellFormed
<1>3. ASSUME NEW i \in Index(image[l]) PROVE image[l].sym[i].name \in Name
  <2> DEFINE sym == image[l].sym[i]
  <2>1. sym \in Symbol
    BY <1>2, <1>3 DEF Index
  <2> HIDE DEF sym
  <2>2. sym.name \in Name
    BY <2>1 DEF Symbol
  <2> QED BY <2>2 DEF sym
<1> QED BY <1>1, <1>2, <1>3

(* What a GNU table promises of the bucket of a name.                      *)
LEMMA GnuTable ==
  ASSUME process \in Process, NEW l \in Lib, image[l].gnu, NEW s \in Name
  PROVE  LET im == image[l]
             b == GnuBucket(im, s)
         IN  /\ b \in 0 .. im.nbuckets - 1
             /\ Hashed(im) \subseteq Index(im)
             /\ im.first[b] # 0 => /\ im.first[b] \in Hashed(im)
                                   /\ GnuBucket(im, im.sym[im.first[b]].name) = b
             /\ \A v, w : \A i \in Offers(l, s, v, w) :
                  i \in Hashed(im) /\ im.first[b] # 0 /\ im.first[b] <= i
<1> DEFINE im == image[l]
<1>1. GnuWellFormed(im) /\ Len(im.sym) \in Nat
  BY LibraryType DEF WellFormed
<1>2. GnuBucket(im, s) \in 0 .. im.nbuckets - 1
  BY <1>1, Modulo, LookupAssumption DEF GnuBucket, GnuWellFormed
<1>3. Hashed(im) \subseteq Index(im)
  BY <1>1 DEF Hashed, Index, GnuWellFormed
<1>4. ASSUME NEW v, NEW w, NEW i \in Offers(l, s, v, w)
      PROVE  i \in Hashed(im) /\ im.first[GnuBucket(im, s)] # 0
             /\ im.first[GnuBucket(im, s)] <= i
  <2>1. /\ i \in Index(im) /\ im.sym[i].name = s
        /\ im.sym[i].defined /\ im.sym[i].bind # "local"
    BY <1>4 DEF Offers, GlobalAndDefined
  <2>2. i \in Hashed(im)
    BY <2>1, <1>1 DEF GnuWellFormed
  <2> QED BY <2>1, <2>2, <1>1 DEF GnuWellFormed
<1>5. im.first[GnuBucket(im, s)] # 0 =>
        /\ im.first[GnuBucket(im, s)] \in Hashed(im)
        /\ GnuBucket(im, im.sym[im.first[GnuBucket(im, s)]].name) = GnuBucket(im, s)
  BY <1>1, <1>2 DEF GnuWellFormed
<1> QED BY <1>2, <1>3, <1>4, <1>5

(* A symbol behind the end of a bucket is not in it.                       *)
LEMMA BucketEnd ==
  ASSUME process \in Process, NEW l \in Lib, image[l].gnu, NEW s \in Name,
         NEW i \in Hashed(image[l]), ~GoesOn(image[l], i),
         GnuBucket(image[l], image[l].sym[i].name) = GnuBucket(image[l], s),
         NEW j \in Hashed(image[l]), image[l].sym[j].name = s
  PROVE  j <= i
<1> DEFINE im == image[l]
           b(k) == GnuBucket(im, im.sym[k].name)
<1>1. GnuWellFormed(im) /\ Len(im.sym) \in Nat
  BY LibraryType DEF WellFormed
<1>2. im.offset \in 1 .. Len(im.sym)
  BY <1>1 DEF GnuWellFormed, Index
<1>3. \A k \in Hashed(im) : b(k) \in Int
  <2> TAKE k \in Hashed(im)
  <2>1. im.sym[k].name \in Name
    BY <1>2, LibraryType DEF Hashed, Index
  <2> QED BY <2>1, GnuTable
<1>4. SUFFICES ASSUME j > i PROVE FALSE
  BY <1>2 DEF Hashed
<1>5. i + 1 \in Hashed(im) /\ i + 1 <= j /\ i < Len(im.sym)
  BY <1>2, <1>4 DEF Hashed
<1>6. b(i) <= b(i + 1) /\ b(i + 1) <= b(j)
  BY <1>1, <1>2, <1>5 DEF GnuWellFormed, Hashed
<1>7. b(i + 1) # b(i)
  BY <1>5 DEF GoesOn
<1>8. b(j) = b(i)
  OBVIOUS
<1> HIDE DEF b
<1> QED BY <1>3, <1>5, <1>6, <1>7, <1>8

(* What a SysV table promises of the list of a name.                       *)
LEMMA SysvTable ==
  ASSUME process \in Process, NEW l \in Lib, image[l].sysv, NEW s \in Name
  PROVE  LET im == image[l]
             head == im.head[SysvBucket(im, s)]
         IN  /\ head \in 0 .. Len(im.sym)
             /\ head # 0 => SysvBucket(im, im.sym[head].name) = SysvBucket(im, s)
             /\ \A i \in Index(im) : im.sym[i].name = s => i <= head
             /\ \A i \in Index(im) :
                  SysvBucket(im, im.sym[i].name) = SysvBucket(im, s) =>
                    /\ im.next[i] \in 0 .. Len(im.sym)
                    /\ im.next[i] # 0 =>
                         SysvBucket(im, im.sym[im.next[i]].name) = SysvBucket(im, s)
                    /\ \A j \in Index(im) :
                         j < i /\ im.sym[j].name = s => j <= im.next[i]
<1> DEFINE im == image[l]
<1>1. SysvWellFormed(im) /\ Len(im.sym) \in Nat
  BY LibraryType DEF WellFormed
<1>2. SysvBucket(im, s) \in 0 .. im.nlists - 1
  BY <1>1, Modulo, LookupAssumption DEF SysvBucket, SysvWellFormed
<1>3. /\ im.head[SysvBucket(im, s)] \in 0 .. Len(im.sym)
      /\ im.head[SysvBucket(im, s)] # 0 =>
           SysvBucket(im, im.sym[im.head[SysvBucket(im, s)]].name) = SysvBucket(im, s)
  BY <1>1, <1>2 DEF SysvWellFormed
<1>4. \A i \in Index(im) : im.sym[i].name = s => i <= im.head[SysvBucket(im, s)]
  BY <1>1 DEF SysvWellFormed
<1>5. ASSUME NEW i \in Index(im),
             SysvBucket(im, im.sym[i].name) = SysvBucket(im, s)
      PROVE  /\ im.next[i] \in 0 .. Len(im.sym)
             /\ im.next[i] # 0 =>
                  SysvBucket(im, im.sym[im.next[i]].name) = SysvBucket(im, s)
             /\ \A j \in Index(im) :
                  j < i /\ im.sym[j].name = s => j <= im.next[i]
  BY <1>1, <1>5 DEF SysvWellFormed
<1> QED BY <1>3, <1>4, <1>5

-----------------------------------------------------------------------------
LEMMA InitInv == Init => Inv
<1> SUFFICES ASSUME Init PROVE Inv
  OBVIOUS
<1> USE DEF Init
<1>1. lib \in Lib
  BY LookupAssumption
<1>2. Len(Here.sym) \in Nat
  BY <1>1, LibraryType DEF Here
<1>3. TypeOK
  <2>1. NeedsSysv(entries) = {}
    BY DEF NeedsSysv
  <2>2. slow = Cardinality(NeedsSysv(entries))
    BY <2>1, FS_EmptySet
  <2>3. toVisit \in Seq(Lib) /\ group \in Seq(Lib)
        /\ entries \in Seq([lib : Lib, gnu : BOOLEAN]) /\ it \in 1 .. Len(entries) + 1
    OBVIOUS
  <2>4. /\ process \in Process /\ flag \subseteq Lib /\ newSoinfo \subseteq Lib
        /\ root \in Lib \cup {NoLib} /\ visited \subseteq Lib
        /\ n \in 0 .. Len(Here.sym) /\ found \in 0 .. Len(Here.sym) + 1
    BY <1>2
  <2>5. /\ pc = "idle" /\ caller = "none" /\ name = NoName /\ prefix = {}
        /\ ver = NoVersion /\ versym \in BOOLEAN /\ exports = {}
    OBVIOUS
  <2> HIDE DEF Init
  <2> QED BY <1>1, <2>2, <2>3, <2>4, <2>5 DEF TypeOK
<1>4. AskInv /\ TableInv /\ ChainInv /\ SysvInv /\ ListInv /\ VersymInv
  BY DEF AskInv, TableInv, ChainInv, SysvInv, ListInv, VersymInv, Looking
<1>5. LookupExact /\ FirstOfGroup /\ FaultsOnlyUnlinked
  BY DEF LookupExact, FirstOfGroup, FaultsOnlyUnlinked
<1> QED BY <1>3, <1>4, <1>5 DEF Inv

(* Steps between the lookups.                                              *)
LEMMA QuietStep ==
  ASSUME Inv, TypeOK', UNCHANGED process, flag' \subseteq flag,
         pc' \in {"idle", "walk", "list", "search"},
         caller' = "none", n' = 0, found' = 0, it' = 1,
         \A i \in DOMAIN entries' : entries'[i].gnu => image[entries'[i].lib].gnu
  PROVE  Inv'
<1>1. AskInv' /\ ChainInv' /\ SysvInv' /\ ListInv' /\ VersymInv'
  BY DEF AskInv, ChainInv, SysvInv, ListInv, VersymInv, Looking
<1>2. TableInv'
  BY DEF Inv, TableInv, image
<1>3. (LookupExact /\ FirstOfGroup /\ FaultsOnlyUnlinked)'
  BY DEF LookupExact, FirstOfGroup, FaultsOnlyUnlinked
<1> QED BY <1>1, <1>2, <1>3 DEF Inv

LEMMA WalkStep ==
  ASSUME Inv, \/ \E l \in Lib : Relink(l)
              \/ VisitAgain \/ Visit \/ VisitSkips \/ WalkDone
  PROVE  Inv'
<1>1. /\ UNCHANGED <<process, list, request, seen, n, result>>
      /\ flag' \subseteq flag /\ newSoinfo' \subseteq newSoinfo
      /\ root' \in Lib \cup {NoLib}
      /\ pc' \in {"walk", "list"} /\ pc \in {"idle", "walk"}
  BY DEF Inv, TypeOK, walk, Relink, Unlinked, VisitAgain, Visit, VisitSkips, WalkDone
<1>2. process \in Process /\ children \in [Lib -> Seq(Lib)] /\ near \subseteq Lib
  BY <1>1, LookupAssumption DEF Inv, TypeOK, near, children
<1>3. toVisit' \in Seq(Lib) /\ visited' \subseteq Lib /\ group' \in Seq(Lib)
  <2>1. CASE \E l \in Lib : Relink(l)
    BY <2>1 DEF Relink
  <2>2. CASE VisitAgain
    BY <2>2 DEF VisitAgain, Inv, TypeOK
  <2>3. CASE Visit
    <3>1. Head(toVisit) \in Lib /\ Tail(toVisit) \in Seq(Lib)
      BY <2>3 DEF Visit, Inv, TypeOK
    <3>2. children[Head(toVisit)] \in Seq(Lib)
      BY <1>2, <3>1
    <3>3. Tail(toVisit) \o children[Head(toVisit)] \in Seq(Lib)
      BY <3>1, <3>2
    <3> QED BY <2>3, <3>1, <3>3 DEF Visit, Inv, TypeOK
  <2>4. CASE VisitSkips
    BY <2>4 DEF VisitSkips, Inv, TypeOK
  <2>5. CASE WalkDone
    BY <2>5 DEF WalkDone, walk, Inv, TypeOK
  <2> QED BY <2>1, <2>2, <2>3, <2>4, <2>5
<1>4. TypeOK'
  <2>1. flag' \subseteq Lib /\ newSoinfo' \subseteq Lib
    BY <1>1 DEF Inv, TypeOK
  <2> QED BY <1>1, <1>3, <2>1 DEF Inv, TypeOK, list, request, result, Here, image
<1> QED BY <1>1, <1>4, QuietStep
     DEF Inv, AskInv, TableInv, list, request, result

LEMMA LookupLibFields ==
  ASSUME NEW l, NEW e, e = LookupLib(l)
  PROVE  e.lib = l /\ (e.gnu => l \in flag)
BY DEF LookupLib

LEMMA BuildStep ==
  ASSUME Inv, NEW l \in Lib, BuildList(l)
  PROVE  Inv'
<1> DEFINE own == IF l \in symbolic THEN <<l>> ELSE <<>>
           libs == own \o global \o group
<1>1. /\ UNCHANGED <<process, flags, walk, it, request, seen, n, result>>
      /\ pc = "list" /\ pc' = "search"
      /\ entries' = [i \in DOMAIN libs |-> LookupLib(libs[i])]
      /\ slow' = Cardinality(NeedsSysv(entries'))
  BY DEF BuildList
<1>2. libs \in Seq(Lib)
  <2>1. global \in Seq(Lib)
    BY LookupAssumption DEF Inv, TypeOK, global
  <2>2. own \in Seq(Lib)
    OBVIOUS
  <2> QED BY <2>1, <2>2 DEF Inv, TypeOK
<1>3. entries' \in Seq([lib : Lib, gnu : BOOLEAN]) /\ DOMAIN entries' = DOMAIN libs
  <2>1. \A i \in DOMAIN libs : LookupLib(libs[i]) \in [lib : Lib, gnu : BOOLEAN]
    BY <1>2 DEF LookupLib
  <2> QED BY <1>1, <1>2, <2>1
<1>4. \A i \in DOMAIN entries' : entries'[i].gnu => image[entries'[i].lib].gnu
  <2> TAKE i \in DOMAIN entries'
  <2>1. entries'[i] = LookupLib(libs[i])
    BY <1>1, <1>3
  <2>2. entries'[i].lib = libs[i] /\ (entries'[i].gnu => libs[i] \in flag)
    BY <2>1, LookupLibFields
  <2> QED BY <2>2 DEF Inv, TableInv
<1>5. TypeOK'
  <2>1. it' \in 1 .. Len(entries') + 1
    BY <1>1, <1>3 DEF Inv, AskInv
  <2> QED BY <1>1, <1>3, <2>1 DEF Inv, TypeOK, walk, request, result, Here, image
<1> QED BY <1>1, <1>4, <1>5, QuietStep DEF Inv, AskInv, request, result

LEMMA SearchStep ==
  ASSUME Inv, NEW s \in Name, NEW v \in Version \cup {NoVersion}, Search(s, v)
  PROVE  Inv'
<1> USE DEF Search
<1>1. UNCHANGED <<process, flags, walk, entries, slow, seen, n, result>>
  OBVIOUS
<1>2. /\ pc' = "next" /\ it' = 1 /\ found' = 0
      /\ caller' = "group" /\ name' = s /\ ver' = v /\ prefix' = {}
  BY DEF result, Inv, AskInv
<1>3. TypeOK'
  <2>1. it' \in 1 .. Len(entries') + 1
    BY <1>1, <1>2 DEF Inv, TypeOK
  <2> QED BY <1>1, <1>2, <2>1 DEF Inv, TypeOK, walk, result, Here, image
<1>4. AskInv'
  BY <1>2 DEF AskInv, Looking
<1>5. TableInv'
  BY <1>1, <1>2 DEF Inv, TableInv, image
<1>6. (ChainInv /\ SysvInv /\ ListInv /\ VersymInv)'
  BY <1>2 DEF ChainInv, SysvInv, ListInv, VersymInv, Looking
<1>7. (LookupExact /\ FirstOfGroup /\ FaultsOnlyUnlinked)'
  BY <1>2 DEF LookupExact, FirstOfGroup, FaultsOnlyUnlinked
<1> QED BY <1>3, <1>4, <1>5, <1>6, <1>7 DEF Inv

LEMMA EndStep ==
  ASSUME Inv, EndRelink
  PROVE  Inv'
<1> USE DEF EndRelink
<1>1. /\ UNCHANGED <<process, flags, request, seen, n, result>>
      /\ root' = NoLib /\ toVisit' = <<>> /\ visited' = {} /\ group' = <<>>
      /\ entries' = <<>> /\ slow' = 0 /\ it' = 1
      /\ pc \in {"list", "search"} /\ pc' = "idle"
  OBVIOUS
<1>2. TypeOK'
  <2>1. NeedsSysv(entries') = {}
    BY <1>1 DEF NeedsSysv
  <2>2. slow' = Cardinality(NeedsSysv(entries'))
    BY <1>1, <2>1, FS_EmptySet
  <2>3. entries' \in Seq([lib : Lib, gnu : BOOLEAN]) /\ it' \in 1 .. Len(entries') + 1
        /\ toVisit' \in Seq(Lib) /\ group' \in Seq(Lib)
    BY <1>1
  <2> HIDE DEF EndRelink
  <2> QED BY <1>1, <2>2, <2>3 DEF Inv, TypeOK, request, result, Here, image
<1> HIDE DEF EndRelink
<1> QED BY <1>1, <1>2, QuietStep DEF Inv, AskInv, request, result

LEMMA ReturnStep ==
  ASSUME Inv, Return
  PROVE  Inv'
<1>1. /\ UNCHANGED <<process, flags, walk, entries, slow, lib>> /\ versym' = FALSE
      /\ pc' \in {"search", "idle"}
      /\ caller' = "none" /\ name' = NoName /\ prefix' = {} /\ ver' = NoVersion
      /\ it' = 1 /\ n' = 0 /\ found' = 0 /\ exports' = {}
  BY DEF Return
<1>2. TypeOK'
  <2>1. it' \in 1 .. Len(entries') + 1
    BY <1>1 DEF Inv, TypeOK
  <2>2. 0 \in 0 .. Len(Here.sym) /\ 0 \in 0 .. Len(Here.sym) + 1
    BY LibraryType DEF Inv, TypeOK, Here
  <2>3. Here' = Here
    BY <1>1 DEF Here, image
  <2> QED BY <1>1, <2>1, <2>2, <2>3 DEF Inv, TypeOK, walk
<1> QED BY <1>1, <1>2, QuietStep DEF Inv, TableInv

-----------------------------------------------------------------------------
(* A lookup in one library that ends: nothing there, or symbol n.          *)
LEMMA AnswerIsRight ==
  ASSUME Inv, Looking, UNCHANGED <<process, newSoinfo, request, lib>>,
         found' \in Offered \/ (found' = 0 /\ Offered = {})
  PROVE  LookupExact'
<1>1. SUFFICES ASSUME caller = "name" PROVE LookupExact'
  BY DEF LookupExact, request
<1>2. ver = NoVersion /\ versym \in BOOLEAN /\ (versym \/ ~HasMinVersion(lib))
  BY <1>1 DEF Inv, TypeOK, AskInv, VersymInv
<1>3. \A w : Offers(lib, name, NoVersion, w)' = Offers(lib, name, NoVersion, w)
  BY DEF Offers, VersionFits, image, request
<1>4. CASE versym
  <2>1. Offered = Offers(lib, name, NoVersion, TRUE)
    BY <1>2, <1>4 DEF Offered, Offers, VersionFits
  <2>2. Right(TRUE)'
    BY <1>3, <2>1 DEF Right
  <2> QED BY <2>2 DEF LookupExact
<1>5. CASE ~versym
  <2>1. Offered = Offers(lib, name, NoVersion, FALSE)
    BY <1>2, <1>5 DEF Offered, Offers, VersionFits
  <2>2. Right(FALSE)'
    BY <1>3, <2>1 DEF Right
  <2>3. ~HasMinVersion(lib)'
    BY <1>2, <1>5 DEF HasMinVersion
  <2> QED BY <2>2, <2>3 DEF LookupExact
<1> QED BY <1>2, <1>4, <1>5

(* A relocation's lookup asks for what the library has for it.             *)
LEMMA AsksForIt ==
  ASSUME Inv, Looking, caller = "group"
  PROVE  Offered = Has(lib)
<1>1. versym <=> HasMinVersion(lib)
  BY DEF Inv, VersymInv
<1> QED BY <1>1 DEF Offered, Has, Offers, VersionFits

(* What libraries have stays while nothing changes that it depends on.     *)
LEMMA HasStays ==
  ASSUME UNCHANGED <<process, newSoinfo, request>>
  PROVE  \A l : Has(l)' = Has(l)
BY DEF Has, HasMinVersion, Offers, VersionFits, image, request

LEMMA MissStep ==
  ASSUME Inv, Looking, Miss, Offered = {}
  PROVE  Inv'
<1>1. /\ UNCHANGED <<process, flags, walk, list, request, seen, n, exports>>
      /\ found = 0 /\ found' = 0
      /\ \/ caller = "group" /\ pc' = "next"
         \/ caller = "name" /\ pc' = "found"
  BY DEF Miss, Inv, AskInv, Looking
<1>2. Here' = Here
  BY <1>1 DEF Here, image
<1>3. TypeOK'
  <2>1. found' \in 0 .. Len(Here.sym) + 1
    BY <1>1 DEF Inv, TypeOK
  <2> QED BY <1>1, <1>2, <2>1 DEF Inv, TypeOK, walk, list, request
<1>4. AskInv' /\ TableInv'
  BY <1>1, <1>2 DEF Inv, AskInv, TableInv, Looking, request, list, image
<1>5. (ChainInv /\ SysvInv /\ FaultsOnlyUnlinked /\ FirstOfGroup /\ VersymInv)'
  BY <1>1 DEF ChainInv, SysvInv, FaultsOnlyUnlinked, FirstOfGroup, VersymInv, Looking,
              request
<1>6. ListInv'
  <2>1. SUFFICES ASSUME caller = "group"
                 PROVE  \A i \in 1 .. it - 1 : OfferedBy(i) = {}
    BY <1>1, HasStays DEF ListInv, Looking, OfferedBy, request, list
  <2> TAKE i \in 1 .. it - 1
  <2>2. it > 1 /\ entries[it - 1].lib = lib /\ \A j \in 1 .. it - 2 : OfferedBy(j) = {}
    BY <2>1 DEF Inv, ListInv
  <2>3. i = it - 1 \/ i \in 1 .. it - 2
    BY <2>2 DEF Inv, TypeOK
  <2>4. Offered = Has(lib)
    BY <2>1, AsksForIt
  <2> QED BY <2>2, <2>3, <2>4 DEF OfferedBy
<1>7. LookupExact'
  BY <1>1, AnswerIsRight
<1> QED BY <1>3, <1>4, <1>5, <1>6, <1>7 DEF Inv

LEMMA TakesStep ==
  ASSUME Inv, Looking, Takes, n \in Offered
  PROVE  Inv'
<1>1. /\ UNCHANGED <<process, flags, walk, list, request, seen, n, exports>>
      /\ found' = n /\ pc' = "found" /\ caller \in {"name", "group"}
  BY DEF Takes, Inv, AskInv
<1>2. Here' = Here /\ image' = image
  BY <1>1 DEF Here, image
<1>3. TypeOK'
  <2>1. found' \in 0 .. Len(Here.sym) + 1
    BY <1>1, LibraryType DEF Inv, TypeOK, Here
  <2> QED BY <1>1, <1>2, <2>1 DEF Inv, TypeOK, walk, list, request
<1>4. AskInv' /\ TableInv'
  BY <1>1, <1>2 DEF Inv, AskInv, TableInv, Looking, request, list
<1>5. (ChainInv /\ SysvInv /\ ListInv /\ FaultsOnlyUnlinked /\ VersymInv)'
  BY <1>1 DEF ChainInv, SysvInv, ListInv, Looking, FaultsOnlyUnlinked, VersymInv
<1>6. FirstOfGroup'
  <2>1. SUFFICES ASSUME caller = "group"
                 PROVE  /\ n \in Has(lib)
                        /\ entries[it - 1].lib = lib
                        /\ \A i \in 1 .. it - 2 : Has(entries[i].lib) = {}
    BY <1>1, HasStays DEF FirstOfGroup, request, list
  <2> QED BY <2>1, AsksForIt DEF Inv, ListInv, OfferedBy
<1>7. LookupExact'
  BY <1>1, AnswerIsRight
<1> QED BY <1>3, <1>4, <1>5, <1>6, <1>7 DEF Inv

-----------------------------------------------------------------------------
(* A lookup in one library that begins.                                    *)
LEMMA BeginStep ==
  ASSUME Inv, UNCHANGED <<process, flags, walk, entries, slow, result>>,
         found = 0, lib' \in Lib, versym' = HasMinVersion(lib'), n' \in 0 .. Len(image[lib'].sym),
         it' \in 1 .. Len(entries) + 1,
         name' \in Name, prefix' \subseteq Name, ver' \in Version \cup {NoVersion},
         pc' \in {"probe", "sysv", "fault"},
         (caller' = "name" /\ ver' = NoVersion) \/ (caller' = "group" /\ ListInv'),
         pc' = "probe" => image[lib'].gnu,
         pc' = "sysv" => /\ image[lib'].sysv
                         /\ n' = image[lib'].head[SysvBucket(image[lib'], name')],
         pc' = "fault" => /\ image[lib'].gnu /\ ~image[lib'].sysv
                          /\ lib' \notin flag
  PROVE  Inv'
<1>1. Here' = image[lib'] /\ image' = image
  BY DEF Here, image
<1>2. TypeOK'
  <2>1. found' = 0 /\ 0 \in 0 .. Len(image[lib'].sym) + 1
    BY LibraryType DEF result, Inv, TypeOK
  <2>2. /\ caller' \in {"none", "name", "group", "prefix", "list"} /\ pc' # "chain"
        /\ versym' \in BOOLEAN
    BY DEF HasMinVersion
  <2> QED BY <1>1, <2>1, <2>2 DEF Inv, TypeOK, walk, result
<1>3. AskInv'
  BY DEF AskInv, Looking, result
<1>4. TableInv'
  BY <1>1 DEF Inv, TableInv
<1>5. ChainInv'
  BY DEF ChainInv
<1>6. SysvInv'
  <2>1. SUFFICES ASSUME pc' = "sysv" PROVE SysvInv'
    BY DEF SysvInv
  <2>2. /\ n' # 0 => SysvBucket(image[lib'], image[lib'].sym[n'].name)
                       = SysvBucket(image[lib'], name')
        /\ \A i \in Index(image[lib']) : image[lib'].sym[i].name = name' => i <= n'
    BY <2>1, SysvTable DEF Inv, TypeOK
  <2>3. \A i \in Offered' : i \in Index(image[lib']) /\ image[lib'].sym[i].name = name'
    BY <1>1 DEF Offered, Offers
  <2> QED BY <1>1, <2>2, <2>3 DEF SysvInv, At
<1>7. ListInv'
  BY DEF ListInv
<1>8. (LookupExact /\ FirstOfGroup /\ FaultsOnlyUnlinked)'
  BY <1>1 DEF LookupExact, FirstOfGroup, FaultsOnlyUnlinked
<1>9. VersymInv'
  BY DEF VersymInv, HasMinVersion
<1> QED BY <1>2, <1>3, <1>4, <1>5, <1>6, <1>7, <1>8, <1>9 DEF Inv

(* What find_symbol_by_name does with a library.                           *)
LEMMA LookIntoFacts ==
  ASSUME process \in Process, NEW l \in Lib, NEW s \in Name, LookInto(l, s),
         TableInv
  PROVE  /\ lib' = l /\ versym' = HasMinVersion(l) /\ n' \in 0 .. Len(image[l].sym)
         /\ pc' \in {"probe", "sysv", "fault"}
         /\ pc' = "probe" => image[l].gnu
         /\ pc' = "sysv" => /\ image[l].sysv
                            /\ n' = image[l].head[SysvBucket(image[l], s)]
         /\ pc' = "fault" => image[l].gnu /\ ~image[l].sysv /\ l \notin flag
<1>1. 0 \in 0 .. Len(image[l].sym)
  BY LibraryType
<1>2. image[l].gnu \/ image[l].sysv
  BY LibraryType DEF WellFormed
<1>3. image[l].sysv => image[l].head[SysvBucket(image[l], s)] \in 0 .. Len(image[l].sym)
  BY SysvTable
<1> QED BY <1>1, <1>2, <1>3 DEF LookInto, TableInv

LEMMA FindStep ==
  ASSUME Inv, NEW l \in Lib, NEW s \in Name, Find(l, s)
  PROVE  Inv'
<1>1. /\ UNCHANGED <<process, flags, walk, list, result>>
      /\ caller' = "name" /\ name' = s /\ prefix' = {} /\ ver' = NoVersion
      /\ LookInto(l, s) /\ pc = "idle"
  BY DEF Find
<1>2. found = 0 /\ it' \in 1 .. Len(entries) + 1
  BY <1>1 DEF Inv, AskInv, TypeOK, list
<1>3. process \in Process /\ TableInv
  BY DEF Inv, TypeOK
<1>4. /\ lib' = l /\ versym' = HasMinVersion(l) /\ n' \in 0 .. Len(image[l].sym)
      /\ pc' \in {"probe", "sysv", "fault"}
      /\ pc' = "probe" => image[l].gnu
      /\ pc' = "sysv" => /\ image[l].sysv
                         /\ n' = image[l].head[SysvBucket(image[l], s)]
      /\ pc' = "fault" => image[l].gnu /\ ~image[l].sysv /\ l \notin flag
  BY <1>1, <1>3, LookIntoFacts
<1>5. UNCHANGED <<process, flags, walk, entries, slow, result>>
  BY <1>1 DEF list
<1>6. /\ lib' \in Lib /\ versym' = HasMinVersion(lib')
      /\ n' \in 0 .. Len(image[lib'].sym)
      /\ pc' = "probe" => image[lib'].gnu
      /\ pc' = "sysv" => /\ image[lib'].sysv
                         /\ n' = image[lib'].head[SysvBucket(image[lib'], name')]
      /\ pc' = "fault" => image[lib'].gnu /\ ~image[lib'].sysv /\ lib' \notin flag
  BY <1>1, <1>4
<1>7. /\ name' \in Name /\ prefix' \subseteq Name /\ ver' \in Version \cup {NoVersion}
      /\ caller' = "name" /\ ver' = NoVersion
      /\ pc' \in {"probe", "sysv", "fault"}
  BY <1>1, <1>4
<1> QED BY <1>2, <1>5, <1>6, <1>7, BeginStep

(* The fast path is taken when no entry needs a SysV table.                *)
LEMMA FastPath ==
  ASSUME TypeOK, slow = 0, NEW i \in DOMAIN entries
  PROVE  entries[i].gnu
<1>1. NeedsSysv(entries) \subseteq 1 .. Len(entries)
  BY DEF NeedsSysv, TypeOK
<1>2. IsFiniteSet(NeedsSysv(entries))
  <2>1. IsFiniteSet(1 .. Len(entries))
    BY FS_Interval DEF TypeOK
  <2> QED BY <1>1, <2>1, FS_Subset
<1>3. NeedsSysv(entries) = {}
  BY <1>2, FS_EmptySet DEF TypeOK
<1> QED BY <1>3 DEF NeedsSysv

LEMMA Element ==
  ASSUME NEW S, NEW s \in Seq(S), NEW i \in DOMAIN s
  PROVE  s[i] \in S
OBVIOUS

LEMMA NextEntryStep ==
  ASSUME Inv, NextEntry
  PROVE  Inv'
<1>1. /\ UNCHANGED <<process, flags, walk, entries, slow, request, result>>
      /\ pc = "next" /\ it <= Len(entries) /\ it' = it + 1
  BY DEF NextEntry
<1>2. /\ caller = "group" /\ found = 0 /\ name \in Name
      /\ \A i \in 1 .. it - 1 : OfferedBy(i) = {}
  BY <1>1 DEF Inv, AskInv, ListInv
<1>3. it \in DOMAIN entries /\ it' \in 1 .. Len(entries) + 1 /\ it \in Nat \ {0}
  BY <1>1 DEF Inv, TypeOK
<1>4. Entry \in [lib : Lib, gnu : BOOLEAN]
  <2>1. entries \in Seq([lib : Lib, gnu : BOOLEAN])
    BY DEF Inv, TypeOK
  <2> QED BY <1>3, <2>1, Element DEF Entry
<1>5. Entry.lib \in Lib /\ 0 \in 0 .. Len(image[Entry.lib].sym)
  <2>1. Entry.lib \in Lib
    BY <1>4
  <2> QED BY <2>1, LibraryType DEF Inv, TypeOK
<1>6. Entry.gnu => image[Entry.lib].gnu
  BY <1>3 DEF Inv, TableInv, Entry
<1>7. process \in Process /\ TableInv
  BY DEF Inv, TypeOK
<1>8. /\ lib' = Entry.lib /\ versym' = HasMinVersion(Entry.lib)
      /\ n' \in 0 .. Len(image[Entry.lib].sym)
      /\ pc' \in {"probe", "sysv", "fault"}
      /\ pc' = "probe" => image[Entry.lib].gnu
      /\ pc' = "sysv" =>
           /\ image[Entry.lib].sysv
           /\ n' = image[Entry.lib].head[SysvBucket(image[Entry.lib], name)]
      /\ pc' = "fault" => /\ image[Entry.lib].gnu /\ ~image[Entry.lib].sysv
                          /\ Entry.lib \notin flag
  <2>1. CASE Entry.gnu
    BY <2>1, <1>5, <1>6 DEF NextEntry
  <2>2. CASE ~Entry.gnu /\ slow > 0
    <3>1. LookInto(Entry.lib, name)
      BY <2>2 DEF NextEntry
    <3> QED BY <3>1, <1>2, <1>5, <1>7, LookIntoFacts
  <2>3. CASE ~Entry.gnu /\ slow = 0
    BY <2>3, <1>3, FastPath DEF Inv, Entry
  <2> QED BY <2>1, <2>2, <2>3 DEF NextEntry
<1>9. ListInv'
  <2>1. \A i \in 1 .. it' - 2 : OfferedBy(i)' = {}
    <3> TAKE i \in 1 .. it' - 2
    <3>1. i \in 1 .. it - 1
      BY <1>1, <1>3
    <3>2. OfferedBy(i)' = OfferedBy(i)
      BY <1>1, HasStays DEF OfferedBy
    <3> QED BY <1>2, <3>1, <3>2
  <2>2. it' > 1 /\ entries'[it' - 1].lib = lib' /\ pc' # "next"
    BY <1>1, <1>3, <1>8 DEF Entry
  <2> QED BY <2>1, <2>2 DEF ListInv
<1>10. /\ name' = name /\ caller' = "group" /\ prefix' \subseteq Name
       /\ ver' \in Version \cup {NoVersion}
  BY <1>1, <1>2 DEF request, Inv, TypeOK
<1> QED BY <1>1, <1>2, <1>3, <1>5, <1>8, <1>9, <1>10, BeginStep

-----------------------------------------------------------------------------
(* No library has it, and the relocation gets nothing.                     *)
LEMMA NoneLeftStep ==
  ASSUME Inv, NoneLeft
  PROVE  Inv'
<1>1. /\ UNCHANGED <<process, flags, walk, list, request, seen, n, exports>>
      /\ pc = "next" /\ it > Len(entries) /\ found' = 0 /\ pc' = "found"
      /\ caller = "group" /\ found = 0
  BY DEF NoneLeft, Inv, AskInv
<1>2. Here' = Here /\ image' = image
  BY <1>1 DEF Here, image
<1>3. TypeOK'
  BY <1>1, <1>2 DEF Inv, TypeOK, walk, list, request
<1>4. AskInv' /\ TableInv'
  BY <1>1, <1>2 DEF Inv, AskInv, TableInv, Looking, request, list
<1>5. (ChainInv /\ SysvInv /\ ListInv /\ VersymInv /\ LookupExact /\ FaultsOnlyUnlinked)'
  BY <1>1 DEF ChainInv, SysvInv, ListInv, VersymInv, Looking, LookupExact,
              FaultsOnlyUnlinked, request
<1>6. FirstOfGroup'
  <2>1. \A i \in DOMAIN entries : i \in 1 .. it - 1
    BY <1>1 DEF Inv, TypeOK
  <2>2. \A i \in DOMAIN entries : OfferedBy(i) = {}
    BY <1>1, <2>1 DEF Inv, ListInv
  <2>3. \A i \in DOMAIN entries' : Has(entries[i].lib)' = {}
    BY <1>1, <2>2, HasStays DEF OfferedBy, list
  <2> QED BY <1>1, <2>3 DEF FirstOfGroup
<1> QED BY <1>3, <1>4, <1>5, <1>6 DEF Inv

(* The bucket of the name, if the library has a GNU table.                 *)
LEMMA ProbeStep ==
  ASSUME Inv, BloomHolds \/ BucketEmpty
  PROVE  Inv'
<1>1. pc = "probe" /\ Miss /\ Looking
  BY DEF BloomHolds, BucketEmpty, Looking
<1>2. /\ process \in Process /\ lib \in Lib /\ name \in Name /\ image[lib].gnu
  BY <1>1 DEF Inv, TypeOK, AskInv, TableInv, Here
<1>3. \A i \in Offered : i \in Hashed(Here) /\ First # 0
  BY <1>2, GnuTable DEF Offered, Here, First
<1>4. \A i \in Offered : Here.sym[i].name = name
  BY DEF Offered, Offers, Here
<1>5. Offered = {}
  BY <1>3, <1>4 DEF BloomHolds, BucketEmpty
<1> QED BY <1>1, <1>5, MissStep

LEMMA BucketStep ==
  ASSUME Inv, BucketBegins
  PROVE  Inv'
<1>1. /\ UNCHANGED <<process, flags, walk, list, request, lib, result>>
      /\ versym' = IF caller = "name" THEN HasMinVersion(lib) ELSE versym
      /\ pc = "probe" /\ pc' = "chain" /\ n' = First /\ First # 0
  BY DEF BucketBegins
<1>2. process \in Process /\ lib \in Lib /\ name \in Name /\ image[lib].gnu
  BY <1>1 DEF Inv, TypeOK, AskInv, TableInv, Here, Looking
<1>3. Here' = Here /\ image' = image /\ Here = image[lib]
  BY <1>1 DEF Here, image
<1>4. /\ First \in Hashed(Here) /\ First \in Index(Here)
      /\ GnuBucket(Here, Here.sym[First].name) = GnuBucket(Here, name)
      /\ \A w : \A i \in Offers(lib, name, ver, w) : First <= i
  BY <1>1, <1>2, <1>3, GnuTable DEF First
<1>5. n' \in 0 .. Len(Here.sym)
  BY <1>1, <1>2, <1>3, <1>4, LibraryType DEF Index
<1>6. Hashed(Here)' = Hashed(Here)
  BY <1>3 DEF Hashed
<1>7. TypeOK'
  <2>1. versym' \in BOOLEAN
    BY <1>1 DEF HasMinVersion, Inv, TypeOK
  <2> QED BY <1>1, <1>3, <1>4, <1>5, <1>6, <2>1
     DEF Inv, TypeOK, walk, list, request, result
<1>8. AskInv' /\ TableInv'
  BY <1>1, <1>2, <1>3 DEF Inv, AskInv, TableInv, Looking, request, list, result
<1>9. ChainInv'
  <2>1. Offered' = Offers(lib, name, ver, versym')
    BY <1>1, <1>3 DEF Offered, Offers, VersionFits, request
  <2>2. name' = name
    BY <1>1 DEF request
  <2>3. GnuBucket(Here, At.name)' = GnuBucket(Here, Here.sym[First].name)
        /\ GnuBucket(Here, name)' = GnuBucket(Here, name)
    BY <1>1, <1>3, <2>2 DEF GnuBucket, At
  <2> QED BY <1>1, <1>4, <1>6, <2>1, <2>3 DEF ChainInv
<1>10. ListInv'
  BY <1>1, HasStays DEF Inv, ListInv, Looking, OfferedBy, request, list
<1>11. (SysvInv /\ LookupExact /\ FirstOfGroup /\ FaultsOnlyUnlinked)'
  BY <1>1 DEF SysvInv, LookupExact, FirstOfGroup, FaultsOnlyUnlinked
<1>12. VersymInv'
  BY <1>1 DEF Inv, VersymInv, Looking, HasMinVersion, request
<1> QED BY <1>7, <1>8, <1>9, <1>10, <1>11, <1>12 DEF Inv

(* Along the chain of the bucket, to its end.                              *)
LEMMA ChainFacts ==
  ASSUME Inv, pc = "chain"
  PROVE  /\ process \in Process /\ lib \in Lib /\ name \in Name /\ Here = image[lib]
         /\ Here.gnu /\ Looking /\ Len(Here.sym) \in Nat
         /\ n \in Hashed(Here) /\ n \in Index(Here) /\ n \in Nat
         /\ GnuBucket(Here, At.name) = GnuBucket(Here, name)
         /\ \A i \in Offered : n <= i /\ i \in Hashed(Here) /\ Here.sym[i].name = name
<1>1. /\ process \in Process /\ lib \in Lib /\ name \in Name /\ Here = image[lib]
      /\ Here.gnu /\ Looking /\ n \in Hashed(Here)
      /\ GnuBucket(Here, At.name) = GnuBucket(Here, name)
      /\ \A i \in Offered : n <= i
  BY DEF Inv, TypeOK, AskInv, TableInv, ChainInv, Here, Looking
<1>2. Len(Here.sym) \in Nat
  BY <1>1, LibraryType
<1>3. /\ Hashed(Here) \subseteq Index(Here)
      /\ \A i \in Offered : i \in Hashed(Here)
  BY <1>1, GnuTable DEF Offered
<1>4. \A i \in Offered : Here.sym[i].name = name
  BY <1>1 DEF Offered, Offers
<1>5. n \in Index(Here) /\ n \in Nat
  BY <1>1, <1>2, <1>3 DEF Index
<1> QED BY <1>1, <1>2, <1>3, <1>4, <1>5

(* At n there is what is wanted exactly if the code takes it.              *)
LEMMA ChainOffered ==
  ASSUME Inv, pc = "chain"
  PROVE  (SameHash /\ Hit) <=> n \in Offered
<1>1. /\ process \in Process /\ lib \in Lib /\ name \in Name /\ Here = image[lib]
      /\ Here.gnu /\ n \in Hashed(Here) /\ n \in Index(Here)
  BY ChainFacts
<1>2. GnuWellFormed(Here) /\ Here.sym \in Seq(Symbol)
  BY <1>1, LibraryType DEF WellFormed
<1>3. At.defined /\ At.bind # "local"
  BY <1>1, <1>2 DEF GnuWellFormed, At
<1>4. At \in Symbol
  BY <1>1, <1>2, Element DEF At, Index
<1>5. At.bind \in {"global", "weak", "local"}
  BY <1>4 DEF Symbol
<1>6. GlobalAndDefined(At)
  BY <1>3, <1>5 DEF GlobalAndDefined
<1>7. Hit <=> VersionFits(Here, n, ver, versym) /\ At.name = name
  BY <1>6 DEF Hit
<1>8. At.name = name => SameHash
  BY DEF SameHash
<1>9. n \in Offered <=> At.name = name /\ VersionFits(Here, n, ver, versym)
  BY <1>1, <1>6 DEF Offered, Offers, At
<1> QED BY <1>7, <1>8, <1>9

LEMMA ChainHitStep ==
  ASSUME Inv, ChainHit
  PROVE  Inv'
<1>1. pc = "chain" /\ SameHash /\ Hit /\ Takes
  BY DEF ChainHit
<1> QED BY <1>1, ChainFacts, ChainOffered, TakesStep

LEMMA ChainEndsStep ==
  ASSUME Inv, ChainEnds
  PROVE  Inv'
<1>1. pc = "chain" /\ ~(SameHash /\ Hit) /\ ~GoesOn(Here, n) /\ Miss
  BY DEF ChainEnds
<1>2. n \notin Offered
  BY <1>1, ChainOffered
<1>3. ASSUME NEW i \in Offered PROVE FALSE
  <2>1. i <= n /\ n <= i /\ i \in Nat
    <3>1. i \in Hashed(Here) /\ Here.sym[i].name = name /\ n <= i
      BY <1>1, ChainFacts
    <3>2. i <= n
      BY <1>1, <3>1, ChainFacts, BucketEnd DEF At
    <3>3. i \in Nat
      BY <1>1, ChainFacts DEF Offered, Offers, Index
    <3> QED BY <3>1, <3>2, <3>3
  <2>2. i = n
    BY <1>1, <2>1, ChainFacts
  <2> QED BY <1>2, <2>2
<1> QED BY <1>1, <1>3, ChainFacts, MissStep

LEMMA ChainNextStep ==
  ASSUME Inv, ChainNext
  PROVE  Inv'
<1>1. /\ UNCHANGED <<process, flags, pc, walk, list, request, seen, result>>
      /\ pc = "chain" /\ n' = n + 1 /\ GoesOn(Here, n)
      /\ ~(SameHash /\ Hit)
  BY DEF ChainNext
<1>2. Here' = Here /\ image' = image /\ name' = name /\ Offered' = Offered
  BY <1>1 DEF Here, image, request, Offered, Offers, VersionFits
<1>3. /\ n + 1 \in Hashed(Here) /\ n + 1 \in 0 .. Len(Here.sym)
      /\ GnuBucket(Here, Here.sym[n + 1].name) = GnuBucket(Here, name)
  <2>1. GnuWellFormed(Here)
    BY <1>1, ChainFacts, LibraryType DEF WellFormed
  <2>2. Here.offset \in Nat /\ Len(Here.sym) \in Nat
    BY <1>1, <2>1, ChainFacts DEF GnuWellFormed, Index
  <2>3. n < Len(Here.sym) /\ n \in Here.offset .. Len(Here.sym)
    BY <1>1, ChainFacts DEF GoesOn, Hashed
  <2>4. n + 1 \in Hashed(Here) /\ n + 1 \in 0 .. Len(Here.sym)
    BY <2>2, <2>3 DEF Hashed
  <2>5. GnuBucket(Here, Here.sym[n + 1].name) = GnuBucket(Here, name)
    BY <1>1, ChainFacts DEF GoesOn, At
  <2> QED BY <2>4, <2>5
<1>4. \A i \in Offered : n + 1 <= i
  <2> TAKE i \in Offered
  <2>1. n \notin Offered
    BY <1>1, ChainOffered
  <2>2. n <= i /\ n \in Nat /\ i \in Nat
    BY <1>1, ChainFacts DEF Offered, Offers, Index
  <2> QED BY <2>1, <2>2
<1>5. ChainInv'
  <2>1. Hashed(Here)' = Hashed(Here)
    BY <1>2 DEF Hashed
  <2>2. GnuBucket(Here, At.name)' = GnuBucket(Here, Here.sym[n + 1].name)
        /\ GnuBucket(Here, name)' = GnuBucket(Here, name)
    BY <1>1, <1>2 DEF GnuBucket, At
  <2> QED BY <1>1, <1>2, <1>3, <1>4, <2>1, <2>2 DEF ChainInv
<1>6. TypeOK'
  <2>1. n' \in 0 .. Len(Here.sym) /\ n' \in Hashed(Here)
    BY <1>1, <1>3
  <2>2. Hashed(Here)' = Hashed(Here)
    BY <1>2 DEF Hashed
  <2> QED BY <1>1, <1>2, <2>1, <2>2 DEF Inv, TypeOK, walk, list, request, result
<1>7. AskInv' /\ TableInv' /\ ListInv' /\ VersymInv'
  BY <1>1, <1>2, HasStays
     DEF Inv, AskInv, TableInv, ListInv, VersymInv, HasMinVersion, Looking, OfferedBy,
         request, list, result
<1>8. (SysvInv /\ LookupExact /\ FirstOfGroup /\ FaultsOnlyUnlinked)'
  BY <1>1 DEF SysvInv, LookupExact, FirstOfGroup, FaultsOnlyUnlinked
<1> QED BY <1>5, <1>6, <1>7, <1>8 DEF Inv

(* Along the list of the bucket, from the last symbol down.                *)
LEMMA SysvFacts ==
  ASSUME Inv, pc = "sysv"
  PROVE  /\ process \in Process /\ lib \in Lib /\ name \in Name /\ Here = image[lib]
         /\ Here.sysv /\ Looking /\ Len(Here.sym) \in Nat
         /\ n \in 0 .. Len(Here.sym)
         /\ n # 0 => SysvBucket(Here, At.name) = SysvBucket(Here, name)
         /\ \A i \in Offered : i <= n /\ i \in Index(Here) /\ Here.sym[i].name = name
<1>1. /\ process \in Process /\ lib \in Lib /\ name \in Name /\ Here = image[lib]
      /\ Here.sysv /\ Looking /\ n \in 0 .. Len(Here.sym)
      /\ n # 0 => SysvBucket(Here, At.name) = SysvBucket(Here, name)
      /\ \A i \in Offered : i <= n
  BY DEF Inv, TypeOK, AskInv, TableInv, SysvInv, Here, Looking
<1>2. Len(Here.sym) \in Nat
  BY <1>1, LibraryType
<1>3. \A i \in Offered : i \in Index(Here) /\ Here.sym[i].name = name
  BY <1>1 DEF Offered, Offers
<1> QED BY <1>1, <1>2, <1>3

LEMMA SysvOffered ==
  ASSUME Inv, pc = "sysv", n # 0
  PROVE  Hit <=> n \in Offered
<1>1. Here = image[lib] /\ n \in Index(Here)
  BY SysvFacts DEF Index
<1>2. Hit <=> VersionFits(Here, n, ver, versym) /\ At.name = name /\ GlobalAndDefined(At)
  BY DEF Hit
<1> QED BY <1>1, <1>2 DEF Offered, Offers, At

LEMMA SysvHitStep ==
  ASSUME Inv, SysvHit
  PROVE  Inv'
<1>1. pc = "sysv" /\ n # 0 /\ Hit /\ Takes
  BY DEF SysvHit
<1> QED BY <1>1, SysvFacts, SysvOffered, TakesStep

LEMMA SysvEndsStep ==
  ASSUME Inv, SysvEnds
  PROVE  Inv'
<1>1. pc = "sysv" /\ n = 0 /\ Miss
  BY DEF SysvEnds
<1>2. \A i \in Offered : i \in Index(Here) /\ i <= 0
  BY <1>1, SysvFacts
<1>3. Offered = {}
  BY <1>1, <1>2, SysvFacts DEF Index
<1> QED BY <1>1, <1>3, SysvFacts, MissStep

LEMMA SysvNextStep ==
  ASSUME Inv, SysvNext
  PROVE  Inv'
<1>1. /\ UNCHANGED <<process, flags, pc, walk, list, request, seen, result>>
      /\ pc = "sysv" /\ n # 0 /\ n' = Here.next[n] /\ ~Hit
  BY DEF SysvNext
<1>2. Here' = Here /\ image' = image /\ name' = name /\ Offered' = Offered
  BY <1>1 DEF Here, image, request, Offered, Offers, VersionFits
<1>3. n \in Index(Here) /\ n \in Nat
  BY <1>1, SysvFacts DEF Index
<1>4. /\ Here.next[n] \in 0 .. Len(Here.sym)
      /\ Here.next[n] # 0 =>
           SysvBucket(Here, Here.sym[Here.next[n]].name) = SysvBucket(Here, name)
      /\ \A j \in Index(Here) : j < n /\ Here.sym[j].name = name => j <= Here.next[n]
  BY <1>1, <1>3, SysvFacts, SysvTable DEF At
<1>5. \A i \in Offered : i <= Here.next[n]
  <2> TAKE i \in Offered
  <2>1. n \notin Offered
    BY <1>1, SysvOffered
  <2>2. i <= n /\ i \in Index(Here) /\ Here.sym[i].name = name /\ i \in Nat
    BY <1>1, SysvFacts DEF Index
  <2>3. i < n
    BY <1>3, <2>1, <2>2
  <2> QED BY <1>4, <2>2, <2>3
<1>6. SysvInv'
  <2>1. SysvBucket(Here, At.name)' = SysvBucket(Here, Here.sym[Here.next[n]].name)
        /\ SysvBucket(Here, name)' = SysvBucket(Here, name)
    BY <1>1, <1>2 DEF SysvBucket, At
  <2> QED BY <1>1, <1>2, <1>4, <1>5, <2>1 DEF SysvInv
<1>7. TypeOK'
  <2>1. n' \in 0 .. Len(Here.sym) /\ pc' # "chain"
    BY <1>1, <1>4
  <2> QED BY <1>1, <1>2, <2>1 DEF Inv, TypeOK, walk, list, request, result
<1>8. AskInv' /\ TableInv' /\ ListInv' /\ VersymInv'
  BY <1>1, <1>2, HasStays
     DEF Inv, AskInv, TableInv, ListInv, VersymInv, HasMinVersion, Looking, OfferedBy,
         request, list, result
<1>9. (ChainInv /\ LookupExact /\ FirstOfGroup /\ FaultsOnlyUnlinked)'
  BY <1>1 DEF ChainInv, LookupExact, FirstOfGroup, FaultsOnlyUnlinked
<1> QED BY <1>6, <1>7, <1>8, <1>9 DEF Inv

-----------------------------------------------------------------------------
(* Lists and prefixes, and the relinks of other threads.                   *)
LEMMA ListedRange ==
  ASSUME process \in Process, NEW l \in Lib, NEW listed \in Listed(l)
  PROVE  listed \subseteq 1 .. Len(image[l].sym) + 1
<1>1. Len(image[l].sym) \in Nat
  BY LibraryType
<1> DEFINE all == 1 .. Len(image[l].sym) + 1
<1>2. Exported(image[l]) \subseteq all /\ Len(image[l].sym) + 1 \in all
  BY <1>1 DEF Exported, Index
<1> HIDE DEF all
<1>3. listed \subseteq Exported(image[l]) \/ listed = {}
      \/ listed = Exported(image[l]) \cup {Len(image[l].sym) + 1}
  <2>1. CASE l \in flag
    <3>1. Listed(l) = {Exported(image[l]) \cap (TableStart(image[l]) .. e) :
                         e \in TableEnds(image[l])}
      BY <2>1 DEF Listed
    <3>2. \E e : listed = Exported(image[l]) \cap (TableStart(image[l]) .. e)
      BY <3>1
    <3> QED BY <3>2
  <2>2. CASE l \notin flag
    BY <2>2 DEF Listed
  <2> QED BY <2>1, <2>2
<1>4. listed \subseteq all
  BY <1>2, <1>3
<1> QED BY <1>4 DEF all

LEMMA ListStep ==
  ASSUME Inv, NEW l \in Lib,
         ListExports(l) \/ \E p \in Prefix : FindPrefix(l, p)
  PROVE  Inv'
<1>1. /\ UNCHANGED <<process, flags, walk, list, versym, n>>
      /\ pc = "idle" /\ pc' = "found"
      /\ caller' \in {"list", "prefix"} /\ name' = NoName /\ ver' = NoVersion
      /\ lib' = l
  BY DEF ListExports, FindPrefix
<1>2. /\ process \in Process /\ n = 0 /\ found = 0
      /\ Here' = image[l] /\ image' = image /\ Len(image[l].sym) \in Nat
  BY <1>1, LibraryType DEF Inv, TypeOK, AskInv, Here, image
<1>3. prefix' \subseteq Name
  BY LookupAssumption DEF ListExports, FindPrefix
<1>4. exports' \subseteq Name /\ found' \in 0 .. Len(image[l].sym) + 1
  <2>1. CASE ListExports(l)
    <3>1. \A listed : NamesOf(image[l], listed) \subseteq Name
      BY <1>2, LibraryType DEF NamesOf
    <3>2. \E listed \in Listed(l) :
            \/ exports' = NamesOf(image[l], listed)
            \/ \E s \in Name : exports' = NamesOf(image[l], listed) \cup {s}
      BY <2>1 DEF ListExports
    <3>3. exports' \subseteq Name
      BY <3>1, <3>2
    <3>4. found' = 0
      BY <1>2, <2>1 DEF ListExports
    <3> QED BY <1>2, <3>3, <3>4
  <2>2. CASE \E p \in Prefix : FindPrefix(l, p)
    <3>1. exports' = exports
      BY <2>2 DEF FindPrefix
    <3>2. found' = 0 \/ \E listed \in Listed(l) : found' \in listed
      BY <2>2 DEF FindPrefix
    <3>3. found' \in 0 .. Len(image[l].sym) + 1
      BY <1>2, <3>2, ListedRange
    <3> QED BY <3>1, <3>3 DEF Inv, TypeOK
  <2> QED BY <2>1, <2>2
<1>5. TypeOK'
  <2>1. 0 \in 0 .. Len(image[l].sym)
    BY <1>2
  <2> QED BY <1>1, <1>2, <1>3, <1>4, <2>1 DEF Inv, TypeOK, walk, list
<1>6. AskInv' /\ TableInv'
  BY <1>1, <1>2 DEF Inv, AskInv, TableInv, Looking, list
<1>7. (ChainInv /\ SysvInv /\ ListInv /\ VersymInv)'
  BY <1>1 DEF ChainInv, SysvInv, ListInv, VersymInv, Looking
<1>8. (LookupExact /\ FirstOfGroup /\ FaultsOnlyUnlinked)'
  BY <1>1 DEF LookupExact, FirstOfGroup, FaultsOnlyUnlinked
<1> QED BY <1>5, <1>6, <1>7, <1>8 DEF Inv

(* Nothing changes, or flags go that no fault and no relocation needs.     *)
LEMMA IdleStep ==
  ASSUME Inv, UNCHANGED <<process, pc, walk, list, request, seen, n, result>>,
         flag' \subseteq flag, newSoinfo' \subseteq newSoinfo,
         pc = "fault" => flag' = flag,
         caller = "group" => newSoinfo' = newSoinfo
  PROVE  Inv'
<1>1. Here' = Here /\ image' = image
  BY DEF Here, image
<1>2. TypeOK'
  BY <1>1 DEF Inv, TypeOK, walk, list, request, result, Hashed
<1>3. AskInv' /\ TableInv'
  BY <1>1 DEF Inv, AskInv, TableInv, Looking, request, list, result
<1>4. ~HasMinVersion(lib) => ~HasMinVersion(lib)'
  BY DEF HasMinVersion
<1>5. /\ Offered' = Offered
      /\ \A w : Offers(lib, name, NoVersion, w)' = Offers(lib, name, NoVersion, w)
  BY <1>1 DEF Offered, Offers, VersionFits, request
<1>6. caller = "group" => \A l : Has(l)' = Has(l)
  BY HasStays
<1>7. ChainInv' /\ SysvInv'
  <2>1. ChainInv'
    BY <1>1, <1>5 DEF Inv, ChainInv, Hashed, At, GnuBucket, request
  <2>2. SysvInv'
    BY <1>1, <1>5 DEF Inv, SysvInv, At, SysvBucket, request
  <2> QED BY <2>1, <2>2
<1>8. ListInv'
  BY <1>6 DEF Inv, ListInv, Looking, OfferedBy, request, list
<1>9. VersymInv'
  <2>1. caller = "group" => (HasMinVersion(lib)' <=> HasMinVersion(lib))
    BY DEF HasMinVersion
  <2> QED BY <1>4, <2>1 DEF Inv, VersymInv, Looking, request
<1>10. (LookupExact /\ FirstOfGroup /\ FaultsOnlyUnlinked)'
  <2>1. UNCHANGED <<pc, caller, found, lib, it, entries>>
    BY DEF request, list, result
  <2>2. \A w : Right(w)' <=> Right(w)
    BY <1>5, <2>1 DEF Right
  <2>3. LookupExact'
    BY <1>4, <2>1, <2>2 DEF Inv, LookupExact
  <2>4. FirstOfGroup'
    BY <1>6, <2>1 DEF Inv, FirstOfGroup
  <2>5. FaultsOnlyUnlinked'
    BY <1>1, <2>1 DEF Inv, FaultsOnlyUnlinked
  <2> QED BY <2>3, <2>4, <2>5
<1> QED BY <1>2, <1>3, <1>7, <1>8, <1>9, <1>10 DEF Inv

LEMMA OtherStep ==
  ASSUME Inv, NEW l \in Lib, OtherRelink(l)
  PROVE  Inv'
<1>1. /\ UNCHANGED <<process, pc, walk, list, request, seen, n, result>>
      /\ flag' \subseteq flag /\ newSoinfo' \subseteq newSoinfo
      /\ pc # "fault" /\ caller # "group"
  BY DEF OtherRelink, Unlinked, Holding
<1> QED BY <1>1, IdleStep

-----------------------------------------------------------------------------
LEMMA StepInv == Inv /\ [Next]_vars => Inv'
<1> SUFFICES ASSUME Inv, [Next]_vars PROVE Inv'
  OBVIOUS
<1>1. CASE \/ \E l \in Lib : Relink(l)
           \/ VisitAgain \/ Visit \/ VisitSkips \/ WalkDone
  BY <1>1, WalkStep
<1>2. ASSUME NEW l \in Lib, BuildList(l) PROVE Inv'
  BY <1>2, BuildStep
<1>3. ASSUME NEW l \in Lib, ListExports(l) \/ \E p \in Prefix : FindPrefix(l, p)
      PROVE  Inv'
  BY <1>3, ListStep
<1>4. ASSUME NEW l \in Lib, OtherRelink(l) PROVE Inv'
  BY <1>4, OtherStep
<1>5. ASSUME NEW l \in Lib, NEW s \in Name, Find(l, s) PROVE Inv'
  BY <1>5, FindStep
<1>6. ASSUME NEW s \in Name, NEW v \in Version \cup {NoVersion}, Search(s, v)
      PROVE  Inv'
  BY <1>6, SearchStep
<1>7. CASE EndRelink \/ Return
  BY <1>7, EndStep, ReturnStep
<1>8. CASE NextEntry \/ NoneLeft
  BY <1>8, NextEntryStep, NoneLeftStep
<1>9. CASE BloomHolds \/ BucketEmpty \/ BucketBegins
  BY <1>9, ProbeStep, BucketStep
<1>10. CASE ChainHit \/ ChainNext \/ ChainEnds
  BY <1>10, ChainHitStep, ChainNextStep, ChainEndsStep
<1>11. CASE SysvHit \/ SysvNext \/ SysvEnds
  BY <1>11, SysvHitStep, SysvNextStep, SysvEndsStep
<1>12. CASE UNCHANGED vars
  <2>1. /\ UNCHANGED <<process, pc, walk, list, request, seen, n, result>>
        /\ flag' = flag /\ newSoinfo' = newSoinfo
    BY <1>12 DEF vars
  <2> QED BY <2>1, IdleStep
<1> QED
  BY <1>1, <1>2, <1>3, <1>4, <1>5, <1>6, <1>7, <1>8, <1>9, <1>10, <1>11, <1>12
     DEF Next

(* The reason of every lookup's answer: the chain, or list, it has come    *)
(* along holds nothing behind it that was asked for, in every reachable    *)
(* state of any libraries, whatever the hash functions are.                *)
THEOREM InvCorrect == Spec => []Inv
<1> QED BY InitInv, StepInv, PTL DEF Spec

(* The walks along chains and lists stay inside a library's symbol table,  *)
(* and slow_path_count_ is the number of entries without a GNU table.      *)
THEOREM TypeCorrect == Spec => []TypeOK
<1>1. Inv => TypeOK
  BY DEF Inv
<1> QED BY <1>1, InvCorrect, PTL

(* find_export_symbol_by_name finds a definition exactly if the library    *)
(* has one that is not an old version's, through either table, and never   *)
(* an imported or local symbol; in a 32-bit library without                *)
(* FLAG_NEW_SOINFO, or in the middle of losing it, maybe of any version.   *)
THEOREM LookupExactCorrect == Spec => []LookupExact
<1>1. Inv => LookupExact
  BY DEF Inv
<1> QED BY <1>1, InvCorrect, PTL

(* soinfo_do_lookup gives a relocation the definition of the first library *)
(* of its list that has one of the version, or none if none has; a 32-bit  *)
(* library without FLAG_NEW_SOINFO counts whatever the version is.         *)
THEOREM FirstOfGroupCorrect == Spec => []FirstOfGroup
<1>1. Inv => FirstOfGroup
  BY DEF Inv
<1> QED BY <1>1, InvCorrect, PTL

(* The null table of a library is read only where a relink has taken the   *)
(* flag of its only table away, not by soinfo_do_lookup_impl<false>.       *)
THEOREM FaultsOnlyUnlinkedCorrect == Spec => []FaultsOnlyUnlinked
<1>1. Inv => FaultsOnlyUnlinked
  BY DEF Inv
<1> QED BY <1>1, InvCorrect, PTL
-----------------------------------------------------------------------------
(***************************************************************************)
(* The table of a library that is gone through from end to end.            *)
(***************************************************************************)
(* If the last bucket is not empty, its chain ends where the symbols end,  *)
(* and the first bucket that is not empty begins where the table begins.   *)
LEMMA WholeTable ==
  ASSUME process \in Process, NEW l \in Lib, image[l].gnu,
         image[l].first[image[l].nbuckets - 1] # 0
  PROVE  /\ \A e \in TableEnds(image[l]) : e = Len(image[l].sym)
         /\ \A i \in Hashed(image[l]) : TableStart(image[l]) <= i
<1> DEFINE im == image[l]
           b(i) == GnuBucket(im, im.sym[i].name)
           max == im.first[im.nbuckets - 1]
<1>1. /\ GnuWellFormed(im) /\ Len(im.sym) \in Nat
      /\ im.offset \in 1 .. Len(im.sym) /\ im.nbuckets \in Nat \ {0}
  BY LibraryType DEF WellFormed, GnuWellFormed, Index
<1>2. \A i \in Hashed(im) : i \in Nat /\ b(i) \in 0 .. im.nbuckets - 1
  <2> TAKE i \in Hashed(im)
  <2>1. i \in Nat /\ im.sym[i].name \in Name
    BY <1>1, LibraryType DEF Hashed, Index
  <2> QED BY <2>1, GnuTable
<1>3. \A i, j \in Hashed(im) : i <= j => b(i) <= b(j)
  BY <1>1 DEF GnuWellFormed
<1>4. im.nbuckets - 1 \in 0 .. im.nbuckets - 1 /\ 0 \in 0 .. im.nbuckets - 1
  BY <1>1
<1>5. \A c \in 0 .. im.nbuckets - 1 :
        im.first[c] # 0 => im.first[c] \in Hashed(im) /\ b(im.first[c]) = c
  BY <1>1 DEF GnuWellFormed
<1>6. \A i \in Hashed(im) : im.first[b(i)] <= i
  BY <1>1 DEF GnuWellFormed
<1>7. max \in Hashed(im) /\ b(max) = im.nbuckets - 1
  BY <1>4, <1>5
<1>8. ASSUME NEW e \in TableEnds(im) PROVE e = Len(im.sym)
  <2>1. e \in max .. Len(im.sym) /\ TRUE \in Odd(im, e)
    BY <1>8 DEF TableEnds
  <2>2. e \in Hashed(im) /\ max <= e
    BY <1>1, <1>2, <1>7, <2>1 DEF Hashed
  <2>3. ~GoesOn(im, e)
    <3>1. e >= im.offset
      BY <1>1, <2>2 DEF Hashed
    <3>2. Odd(im, e) = {~GoesOn(im, e)}
      BY <3>1, Zenon DEF Odd
    <3> QED BY <2>1, <3>2, Zenon
  <2>4. ASSUME e < Len(im.sym) PROVE FALSE
    <3>1. e + 1 \in Hashed(im) /\ b(e + 1) # b(e) /\ e <= e + 1
      BY <1>1, <2>2, <2>3, <2>4 DEF Hashed, GoesOn
    <3>2. b(max) <= b(e) /\ b(e) <= b(e + 1)
      BY <1>3, <1>7, <2>2, <3>1
    <3>3. b(e) \in 0 .. im.nbuckets - 1 /\ b(e + 1) \in 0 .. im.nbuckets - 1
      BY <1>2, <2>2, <3>1
    <3> HIDE DEF b
    <3> QED BY <1>1, <1>7, <3>1, <3>2, <3>3
  <2> QED BY <1>1, <2>2, <2>4 DEF Hashed
<1>9. ASSUME NEW i \in Hashed(im) PROVE im.first[0] <= i
  <2>1. i \in Nat /\ b(i) \in 0 .. im.nbuckets - 1
    BY <1>2, <1>9
  <2>2. CASE im.first[0] = 0
    BY <2>1, <2>2
  <2>3. CASE b(i) = 0
    BY <1>6, <1>9, <2>3
  <2>4. CASE im.first[0] # 0 /\ b(i) # 0
    <3>1. im.first[0] \in Hashed(im) /\ b(im.first[0]) = 0
      BY <1>4, <1>5, <2>4
    <3>2. im.first[0] \in Nat
      BY <1>2, <3>1
    <3>3. ~(i <= im.first[0])
      <4>1. ~(b(i) <= 0)
        BY <2>1, <2>4
      <4> QED BY <1>3, <1>9, <3>1, <4>1
    <3> QED BY <2>1, <3>2, <3>3
  <2> QED BY <2>2, <2>3, <2>4
<1> QED BY <1>8, <1>9 DEF TableStart

(* The loops then take every exported symbol, and nothing else.            *)
LEMMA ListedAll ==
  ASSUME process \in Process, NEW l \in flag, l \in Lib, image[l].gnu,
         image[l].first[image[l].nbuckets - 1] # 0,
         NEW listed \in Listed(l)
  PROVE  listed = Exported(image[l])
<1> DEFINE im == image[l]
<1>1. GnuWellFormed(im) /\ Len(im.sym) \in Nat /\ im.offset \in 1 .. Len(im.sym)
  BY LibraryType DEF WellFormed, GnuWellFormed, Index
<1>2. PICK e \in TableEnds(im) : listed = Exported(im) \cap (TableStart(im) .. e)
  BY DEF Listed
<1>3. e = Len(im.sym)
  BY WholeTable
<1>4. ASSUME NEW i \in Exported(im) PROVE i \in TableStart(im) .. Len(im.sym)
  <2>1. i \in Index(im) /\ im.sym[i].defined /\ im.sym[i].bind # "local"
    BY <1>4 DEF Exported
  <2>2. i \in Hashed(im)
    BY <1>1, <2>1 DEF GnuWellFormed
  <2>3. TableStart(im) <= i
    BY <2>2, WholeTable
  <2>4. TableStart(im) \in Nat
    <3>1. im.first \in [0 .. im.nbuckets - 1 -> 0 .. Len(im.sym)] /\ im.nbuckets \in Nat \ {0}
      BY <1>1 DEF GnuWellFormed
    <3>2. 0 \in 0 .. im.nbuckets - 1
      BY <3>1
    <3>3. im.first[0] \in 0 .. Len(im.sym)
      BY <3>1, <3>2, Zenon
    <3> QED BY <1>1, <3>3 DEF TableStart
  <2> QED BY <1>1, <2>1, <2>3, <2>4 DEF Index
<1> QED BY <1>2, <1>3, <1>4

LEMMA ListExportsAll ==
  ASSUME Inv, NEW l \in Lib, ListExports(l)
  PROVE  ListingExact'
<1>1. /\ process \in Process /\ image' = image /\ Here' = image[l]
      /\ flag' = flag /\ lib' = l /\ caller' = "list"
  BY DEF ListExports, Inv, TypeOK, Here, image
<1>2. SUFFICES ASSUME l \in flag, image[l].first[image[l].nbuckets - 1] # 0
               PROVE  exports' = {image[l].sym[i].name : i \in Exported(image[l])}
  BY <1>1 DEF ListingExact
<1>3. image[l].gnu
  BY <1>2 DEF Inv, TableInv
<1>4. \A listed \in Listed(l) : listed = Exported(image[l])
  BY <1>1, <1>2, <1>3, ListedAll
<1>5. Exported(image[l]) \subseteq Index(image[l])
  BY DEF Exported
<1>6. exports' \in {NamesOf(image[l], Exported(image[l]))}
  BY <1>4, <1>5 DEF ListExports
<1> QED BY <1>5, <1>6 DEF NamesOf

LEMMA FindPrefixFirst ==
  ASSUME Inv, NEW l \in Lib, NEW p \in Prefix, FindPrefix(l, p)
  PROVE  ListingExact'
<1> DEFINE of == {i \in Exported(image[l]) : image[l].sym[i].name \in p}
<1>1. /\ process \in Process /\ image' = image /\ Here' = image[l]
      /\ flag' = flag /\ lib' = l /\ caller' = "prefix" /\ prefix' = p
  BY DEF FindPrefix, Inv, TypeOK, Here, image
<1>2. SUFFICES ASSUME l \in flag, image[l].first[image[l].nbuckets - 1] # 0
               PROVE  IF of = {} THEN found' = 0
                      ELSE found' \in of /\ \A i \in of : found' <= i
  BY <1>1 DEF ListingExact
<1>3. image[l].gnu
  BY <1>2 DEF Inv, TableInv
<1>4. \A listed \in Listed(l) : listed = Exported(image[l])
  BY <1>1, <1>2, <1>3, ListedAll
<1>5. PICK listed \in Listed(l) :
        LET some == {i \in listed : i \in Index(image[l]) => image[l].sym[i].name \in p}
        IN  \/ some = {} /\ found' = 0
            \/ found' \in {i \in some : \A j \in some : i <= j}
  BY DEF FindPrefix
<1>6. of = {i \in listed : i \in Index(image[l]) => image[l].sym[i].name \in p}
  BY <1>4, <1>5 DEF Exported
<1> HIDE DEF of
<1>7. \/ of = {} /\ found' = 0
      \/ found' \in {i \in of : \A j \in of : i <= j}
  BY <1>5, <1>6
<1> QED BY <1>7

(* Who has an answer that is not of a list or a prefix, or nothing new.    *)
LEMMA OtherAnswers ==
  ASSUME Inv, [Next]_vars, pc' = "found",
         ~\E l \in Lib : ListExports(l) \/ \E p \in Prefix : FindPrefix(l, p)
  PROVE  \/ caller' \in {"name", "group"}
         \/ /\ pc = "found" /\ flag' \subseteq flag
            /\ UNCHANGED <<process, request, lib, result>>
<1>1. CASE \E l \in Lib : Relink(l) \/ BuildList(l)
  BY <1>1 DEF Relink, BuildList
<1>2. CASE VisitAgain \/ Visit \/ VisitSkips \/ WalkDone
  BY <1>2 DEF VisitAgain, Visit, VisitSkips, WalkDone
<1>3. CASE EndRelink \/ NextEntry \/ \E s \in Name, v \in Version \cup {NoVersion} : Search(s, v)
  BY <1>3 DEF EndRelink, NextEntry, LookInto, Search
<1>4. CASE \E l \in Lib, s \in Name : Find(l, s)
  BY <1>4 DEF Find
<1>5. CASE NoneLeft
  BY <1>5 DEF NoneLeft, request, Inv, AskInv
<1>6. CASE BloomHolds \/ BucketEmpty \/ BucketBegins
  BY <1>6 DEF BloomHolds, BucketEmpty, BucketBegins, Miss, request, Inv, AskInv, Looking
<1>7. CASE ChainHit \/ ChainNext \/ ChainEnds
  BY <1>7 DEF ChainHit, ChainNext, ChainEnds, Takes, Miss, request, Inv, AskInv, Looking
<1>8. CASE SysvHit \/ SysvNext \/ SysvEnds
  BY <1>8 DEF SysvHit, SysvNext, SysvEnds, Takes, Miss, request, Inv, AskInv, Looking
<1>9. CASE Return
  BY <1>9 DEF Return
<1>10. CASE \E l \in Lib : OtherRelink(l)
  BY <1>10 DEF OtherRelink, Unlinked
<1>11. CASE UNCHANGED vars
  BY <1>11 DEF vars
<1> QED
  BY <1>1, <1>2, <1>3, <1>4, <1>5, <1>6, <1>7, <1>8, <1>9, <1>10, <1>11 DEF Next

LEMMA ListingKept ==
  ASSUME Inv, ListingExact, [Next]_vars
  PROVE  ListingExact'
<1>1. CASE \E l \in Lib : ListExports(l) \/ \E p \in Prefix : FindPrefix(l, p)
  BY <1>1, ListExportsAll, FindPrefixFirst
<1>2. CASE pc' = "found" /\ ~\E l \in Lib : ListExports(l) \/ \E p \in Prefix : FindPrefix(l, p)
  <2>1. CASE caller' \in {"name", "group"}
    BY <2>1 DEF ListingExact
  <2>2. CASE /\ pc = "found" /\ flag' \subseteq flag
             /\ UNCHANGED <<process, request, lib, result>>
    BY <2>2 DEF ListingExact, Here, image, request, result
  <2> QED BY <1>2, <2>1, <2>2, OtherAnswers
<1>3. CASE pc' # "found"
  BY <1>3 DEF ListingExact
<1> QED BY <1>1, <1>2, <1>3

(* get_global_soinfo_export_symbols and find_export_symbol_by_prefix take  *)
(* the right end of a GNU table for its end: they miss no exported symbol  *)
(* and invent none, if the last bucket holds a symbol.                     *)
THEOREM ListingExactCorrect == Spec => []ListingExact
<1>1. Init => ListingExact
  BY DEF Init, ListingExact
<1> QED BY <1>1, ListingKept, InvCorrect, PTL DEF Spec
-----------------------------------------------------------------------------
(***************************************************************************)
(* The walk: first in, first out.                                          *)
(***************************************************************************)
(* The entry k of visit_list is there because group[o[k]] needs it, and    *)
(* the entries are in the order of the libraries that need them.           *)
Ordered(o) ==
  /\ o \in [1 .. Len(toVisit) -> 1 .. Len(group)]
  /\ \A k \in 1 .. Len(toVisit) : toVisit[k] \in Needs(group[o[k]])
  /\ \A k, m \in 1 .. Len(toVisit) : k <= m => o[k] <= o[m]

(* What a library of the group needs has been visited, or will be for it.  *)
Awaited(o) ==
  \A j \in 1 .. Len(group) : \A x \in Needs(group[j]) :
    x \in visited \/ \E k \in 1 .. Len(toVisit) : toVisit[k] = x /\ o[k] = j

(* group[r[i]] is the first of the group that needs group[i].              *)
Reasons(r) ==
  /\ r \in [1 .. Len(group) -> Nat]
  /\ \A i \in 2 .. Len(group) :
       /\ r[i] \in 1 .. i - 1
       /\ group[i] \in Needs(group[r[i]])
       /\ \A j \in 1 .. r[i] - 1 : group[i] \notin Needs(group[j])
  /\ \A i, j \in 2 .. Len(group) : i <= j => r[i] <= r[j]

(* What is to come is needed by no earlier library than what has come.     *)
Following(r, o) ==
  \A i \in 2 .. Len(group) : \A k \in 1 .. Len(toVisit) : r[i] <= o[k]

Walked ==
  /\ \A i, j \in 1 .. Len(group) : group[i] = group[j] => i = j
  /\ \A i \in 1 .. Len(group) : group[i] \in visited
  /\ visited \cap near \subseteq Members
  /\ root \in primary
  /\ group = <<>> => \/ toVisit = <<root>> /\ visited = {}
                     \/ toVisit = <<>> /\ root \notin near
  /\ group # <<>> => group[1] = root /\ root \in near
  /\ group # <<>> => \E r, o : Ordered(o) /\ Awaited(o) /\ Reasons(r) /\ Following(r, o)

WalkInv ==
  /\ pc \in {"walk", "list"} => Walked
  /\ pc = "list" => toVisit = <<>>

(* t is s without its first entry, of which old are left, and then c.      *)
Joins(t, s, c, old) ==
  /\ Len(t) = old + Len(c)
  /\ \A k \in 1 .. old : t[k] = s[k + 1]
  /\ \A k \in old + 1 .. Len(t) : \E m \in 1 .. Len(c) : t[k] = c[m]
  /\ \A m \in 1 .. Len(c) : \E k \in old + 1 .. Len(t) : t[k] = c[m]

LEMMA Concatenated ==
  ASSUME NEW X, NEW s \in Seq(X), NEW c \in Seq(X), NEW old \in Nat, Len(s) = old + 1
  PROVE  Joins(Tail(s) \o c, s, c, old)
<1> DEFINE u == Tail(s)
           t == u \o c
<1>1. u \in Seq(X) /\ Len(u) = old /\ Len(c) \in Nat
  OBVIOUS
<1>2. \A k \in 1 .. old : u[k] = s[k + 1]
  OBVIOUS
<1> HIDE DEF u
<1>3. /\ Len(t) = Len(u) + Len(c)
      /\ \A k \in 1 .. Len(u) : t[k] = u[k]
      /\ \A k \in Len(u) + 1 .. Len(t) : t[k] = c[k - Len(u)]
  BY <1>1
<1> HIDE DEF t
<1>4. /\ Len(t) = old + Len(c)
      /\ \A k \in 1 .. old : t[k] = u[k]
      /\ \A k \in old + 1 .. Len(t) : t[k] = c[k - old]
  BY <1>1, <1>3
<1>5. \A k \in old + 1 .. Len(t) : k - old \in 1 .. Len(c)
  BY <1>1, <1>4
<1>6. \A m \in 1 .. Len(c) : old + m \in old + 1 .. Len(t) /\ old + m - old = m
  BY <1>1, <1>4
<1>7. \A m \in 1 .. Len(c) : t[old + m] = c[m]
  BY <1>4, <1>6
<1>8. Joins(t, s, c, old)
  BY <1>4, <1>5, <1>6, <1>7, <1>2 DEF Joins
<1> QED BY <1>8 DEF t, u

LEMMA FirstStays ==
  ASSUME NEW X, NEW s \in Seq(X), s # <<>>
  PROVE  /\ Tail(s) \in Seq(X) /\ Len(Tail(s)) = Len(s) - 1 /\ Head(s) = s[1]
         /\ Len(s) \in Nat \ {0}
         /\ \A k \in 1 .. Len(s) - 1 : Tail(s)[k] = s[k + 1]
OBVIOUS

(* What the namespace can access stays while no flag goes.                 *)
LEMMA NearStays ==
  ASSUME UNCHANGED <<process, newSoinfo>>
  PROVE  /\ near' = near /\ primary' = primary /\ children' = children
         /\ \A l : Needs(l)' = Needs(l)
<1>1. primary' = primary /\ children' = children /\ secondary' = secondary
  BY DEF primary, secondary, children
<1>2. \A l : Needs(l)' = Needs(l) /\ (HasMinVersion(l)' <=> HasMinVersion(l))
  BY <1>1 DEF Needs, HasMinVersion
<1>3. \A l : Accessible(l)' <=> Accessible(l)
  BY <1>1, <1>2 DEF Accessible
<1> QED BY <1>1, <1>2, <1>3 DEF near

(* Root: the walk of a relink begins.                                      *)
LEMMA WalkBegins ==
  ASSUME Inv, NEW l \in Lib, Relink(l)
  PROVE  WalkInv'
<1>1. /\ pc' = "walk" /\ toVisit' = <<l>> /\ visited' = {} /\ group' = <<>>
      /\ root' = l /\ l \in primary /\ primary' = primary
  BY DEF Relink, primary
<1>2. Walked'
  <2>1. 1 .. Len(group') = {}
    BY <1>1
  <2> QED BY <1>1, <2>1 DEF Walked
<1> QED BY <1>1, <1>2 DEF WalkInv

(* An entry that has been visited, or is now, leaves visit_list.           *)
LEMMA EntryLeaves ==
  ASSUME Inv, WalkInv, pc = "walk", pc' = "walk", toVisit # <<>>,
         UNCHANGED <<process, newSoinfo, root, group>>, toVisit' = Tail(toVisit),
         visited' = visited \cup {Head(toVisit)},
         Head(toVisit) \in visited \/ Head(toVisit) \notin near
  PROVE  WalkInv'
<1>1. /\ toVisit \in Seq(Lib) /\ group \in Seq(Lib) /\ near' = near
      /\ children' = children /\ \A l : Needs(l)' = Needs(l)
      /\ Members' = Members /\ Len(group) \in Nat /\ primary' = primary
  BY NearStays DEF Inv, TypeOK, Members
<1>2. /\ Len(toVisit') = Len(toVisit) - 1 /\ Head(toVisit) = toVisit[1]
      /\ Len(toVisit) \in Nat \ {0}
      /\ \A k \in 1 .. Len(toVisit') : toVisit'[k] = toVisit[k + 1]
  BY <1>1, FirstStays
<1>3. Walked
  BY DEF WalkInv
<1>4. ASSUME group # <<>>
      PROVE  \E r, o : (Ordered(o) /\ Awaited(o) /\ Reasons(r) /\ Following(r, o))'
  <2>1. PICK r, o : Ordered(o) /\ Awaited(o) /\ Reasons(r) /\ Following(r, o)
    BY <1>3, <1>4 DEF Walked
  <2>2. PICK rest : rest = [k \in 1 .. Len(toVisit') |-> o[k + 1]]
    OBVIOUS
  <2>3. \A k \in 1 .. Len(toVisit') : k + 1 \in 1 .. Len(toVisit) /\ rest[k] = o[k + 1]
    BY <1>2, <2>2
  <2>4. Ordered(rest)'
    <3>1. rest \in [1 .. Len(toVisit') -> 1 .. Len(group)]
      BY <2>2, <2>1, <2>3 DEF Ordered
    <3>2. \A k \in 1 .. Len(toVisit') : toVisit'[k] \in Needs(group[rest[k]])
      BY <1>2, <2>1, <2>3 DEF Ordered
    <3>3. \A k, m \in 1 .. Len(toVisit') : k <= m => rest[k] <= rest[m]
      <4> TAKE k, m \in 1 .. Len(toVisit')
      <4>1. k <= m => k + 1 <= m + 1
        OBVIOUS
      <4> QED BY <2>1, <2>3, <4>1 DEF Ordered
    <3> QED BY <1>1, <3>1, <3>2, <3>3 DEF Ordered
  <2>5. Awaited(rest)'
    <3> SUFFICES ASSUME NEW j \in 1 .. Len(group), NEW x \in Needs(group[j]),
                        x \notin visited'
                 PROVE  \E k \in 1 .. Len(toVisit') : toVisit'[k] = x /\ rest[k] = j
      BY <1>1 DEF Awaited
    <3>1. PICK k \in 1 .. Len(toVisit) : toVisit[k] = x /\ o[k] = j
      BY <2>1 DEF Awaited
    <3>2. k # 1
      BY <1>2, <3>1
    <3>3. k - 1 \in 1 .. Len(toVisit') /\ k - 1 + 1 = k
      BY <1>2, <3>2
    <3> QED BY <1>2, <2>3, <3>1, <3>3
  <2>6. Reasons(r)'
    BY <1>1, <2>1 DEF Reasons
  <2>7. Following(r, rest)'
    BY <1>1, <2>1, <2>3 DEF Following
  <2> QED BY <2>4, <2>5, <2>6, <2>7
<1>5. visited' \cap near \subseteq Members
  BY <1>3 DEF Walked
<1>6. group = <<>> => toVisit' = <<>> /\ root \notin near
  <2>1. SUFFICES ASSUME group = <<>> PROVE toVisit' = <<>> /\ root \notin near
    OBVIOUS
  <2>2. toVisit = <<root>> /\ visited = {}
    BY <1>3, <2>1 DEF Walked
  <2> QED BY <2>2
<1>7. Walked'
  BY <1>1, <1>3, <1>4, <1>5, <1>6 DEF Walked
<1> QED BY <1>7 DEF WalkInv

(* A library that the walk takes: what it needs is put behind the rest.    *)
LEMMA LibraryComes ==
  ASSUME Inv, WalkInv, Visit
  PROVE  WalkInv'
<1>1. PICK l, old, new : l = Head(toVisit) /\ old = Len(toVisit) - 1 /\ new = Len(group) + 1
  OBVIOUS
<1>2. /\ pc = "walk" /\ pc' = "walk" /\ toVisit # <<>> /\ process' = process
      /\ newSoinfo' = newSoinfo /\ root' = root /\ primary' = primary
      /\ l \in near /\ l \notin visited
      /\ group' = Append(group, l) /\ visited' = visited \cup {l}
      /\ toVisit' = Tail(toVisit) \o children[l]
  BY <1>1 DEF Visit, primary
<1>3. /\ toVisit \in Seq(Lib) /\ group \in Seq(Lib) /\ near' = near
      /\ children' = children /\ \A m : Needs(m)' = Needs(m)
      /\ children \in [Lib -> Seq(Lib)] /\ Len(group) \in Nat
      /\ new = Len(group) + 1 /\ new \in 1 .. new
      /\ \A x \in 1 .. Len(group) : x \in 1 .. new /\ x \in Nat /\ x < new
  <2>1. /\ toVisit \in Seq(Lib) /\ group \in Seq(Lib) /\ near' = near
        /\ children' = children /\ \A m : Needs(m)' = Needs(m)
        /\ children \in [Lib -> Seq(Lib)]
    BY <1>2, NearStays, LookupAssumption DEF Inv, TypeOK, children
  <2>2. Len(group) \in Nat
    BY <2>1
  <2> QED BY <1>1, <2>1, <2>2
<1>4. Len(group) \in Nat
  BY <1>3
<1>5. /\ l = toVisit[1] /\ Len(toVisit) = old + 1 /\ old \in Nat /\ l \in Lib
      /\ children[l] \in Seq(Lib)
      /\ Needs(l) = {children[l][m] : m \in 1 .. Len(children[l])}
  <2>1. l = toVisit[1] /\ Len(toVisit) \in Nat \ {0} /\ 1 \in 1 .. Len(toVisit)
    BY <1>1, <1>2, <1>3, FirstStays
  <2>2. l \in Lib
    BY <1>3, <2>1
  <2>3. children[l] \in Seq(Lib)
    BY <1>3, <2>2
  <2> QED BY <1>1, <2>1, <2>2, <2>3 DEF Needs
<1>6. /\ Len(toVisit') \in Nat /\ old <= Len(toVisit')
      /\ \A k \in 1 .. old : toVisit'[k] = toVisit[k + 1]
      /\ \A k \in old + 1 .. Len(toVisit') : toVisit'[k] \in Needs(l)
      /\ \A x \in Needs(l) : \E k \in old + 1 .. Len(toVisit') : toVisit'[k] = x
  <2>1. /\ Len(toVisit') = old + Len(children[l])
        /\ \A k \in 1 .. old : toVisit'[k] = toVisit[k + 1]
        /\ \A k \in old + 1 .. Len(toVisit') :
             \E m \in 1 .. Len(children[l]) : toVisit'[k] = children[l][m]
        /\ \A m \in 1 .. Len(children[l]) :
             \E k \in old + 1 .. Len(toVisit') : toVisit'[k] = children[l][m]
    <3>1. children[l] \in Seq(Lib) /\ toVisit \in Seq(Lib) /\ old \in Nat
          /\ Len(toVisit) = old + 1
      BY <1>3, <1>5
    <3>2. Joins(Tail(toVisit) \o children[l], toVisit, children[l], old)
      BY <3>1, Concatenated
    <3>3. Joins(toVisit', toVisit, children[l], old)
      BY <1>2, <3>2, Zenon
    <3> QED BY <3>3 DEF Joins
  <2>2. Len(toVisit') \in Nat /\ old <= Len(toVisit')
    BY <1>5, <2>1
  <2>3. Needs(l) = {children[l][m] : m \in 1 .. Len(children[l])}
    BY <1>5
  <2>4. \A k \in old + 1 .. Len(toVisit') : toVisit'[k] \in Needs(l)
    BY <2>1, <2>3
  <2>5. \A x \in Needs(l) : \E k \in old + 1 .. Len(toVisit') : toVisit'[k] = x
    BY <2>1, <2>3
  <2> QED BY <2>1, <2>2, <2>4, <2>5
<1>7. /\ Len(group') = new /\ group'[new] = l
      /\ \A i \in 1 .. Len(group) : group'[i] = group[i]
      /\ 1 .. new = 1 .. Len(group) \cup {new}
      /\ DOMAIN group' = 1 .. new /\ DOMAIN group = 1 .. Len(group)
  BY <1>2, <1>3, <1>5
<1>8. Members' = Members \cup {l}
  <2>1. Members' = {group'[i] : i \in 1 .. new} /\ Members = {group[i] : i \in 1 .. Len(group)}
    BY <1>7 DEF Members
  <2> QED BY <1>7, <2>1
<1>9. Walked
  BY <1>2 DEF WalkInv
<1>10. \A i, j \in 1 .. new : group'[i] = group'[j] => i = j
  <2>1. \A i \in 1 .. Len(group) : group[i] # l
    BY <1>2, <1>9 DEF Walked
  <2> QED BY <1>7, <1>9, <2>1 DEF Walked
<1>11. \A i \in 1 .. new : group'[i] \in visited'
  <2> QED BY <1>2, <1>7, <1>9 DEF Walked
<1>12. visited' \cap near \subseteq Members'
  BY <1>2, <1>8, <1>9 DEF Walked
<1>13. group' # <<>> /\ group'[1] = root' /\ root' \in near' /\ root' \in primary'
  <2>1. group' # <<>>
    BY <1>3, <1>7
  <2>2. CASE group = <<>>
    <3>1. toVisit = <<root>>
      BY <1>2, <1>9, <2>2 DEF Walked
    <3>2. l = root /\ group' = <<l>>
      BY <1>2, <1>5, <2>2, <3>1
    <3> QED BY <1>2, <1>3, <1>9, <2>1, <3>2 DEF Walked
  <2>3. CASE group # <<>>
    <3>1. 1 \in 1 .. Len(group)
      BY <1>3, <2>3
    <3> QED BY <1>2, <1>3, <1>7, <1>9, <2>1, <2>3, <3>1 DEF Walked
  <2> QED BY <2>2, <2>3
<1>14. CASE group = <<>>
  <2>1. Len(group) = 0 /\ old = 0 /\ new = 1
    <3>1. toVisit = <<root>>
      BY <1>2, <1>9, <1>14 DEF Walked
    <3>2. Len(group) = 0
      BY <1>14
    <3> QED BY <1>3, <1>5, <3>1, <3>2
  <2>2. PICK o, r : o = [k \in 1 .. Len(toVisit') |-> 1] /\ r = [i \in 1 .. 1 |-> 0]
    OBVIOUS
  <2>3. \A k \in 1 .. Len(toVisit') : o[k] = 1 /\ k \in old + 1 .. Len(toVisit')
    BY <2>2, <2>1
  <2>4. Ordered(o)'
    <3>1. o \in [1 .. Len(toVisit') -> 1 .. new] /\ \A k, m \in 1 .. Len(toVisit') : o[k] <= o[m]
      BY <2>2, <2>1
    <3>2. \A k \in 1 .. Len(toVisit') : toVisit'[k] \in Needs(group'[o[k]])
      BY <1>6, <1>7, <2>1, <2>3
    <3> QED BY <1>3, <1>7, <3>1, <3>2 DEF Ordered
  <2>5. Awaited(o)'
    <3> SUFFICES ASSUME NEW j \in 1 .. new, NEW x \in Needs(group'[j])
                 PROVE  \E k \in 1 .. Len(toVisit') : toVisit'[k] = x /\ o[k] = j
      BY <1>3, <1>7 DEF Awaited
    <3>1. j = 1 /\ x \in Needs(l)
      BY <1>7, <2>1
    <3> QED BY <1>6, <2>1, <2>3, <3>1
  <2>6. 2 .. new = {}
    BY <2>1
  <2>7. Reasons(r)'
    <3>1. r \in [1 .. new -> Nat]
      BY <2>2, <2>1
    <3> QED BY <1>7, <2>6, <3>1 DEF Reasons
  <2>8. Following(r, o)'
    BY <1>7, <2>6 DEF Following
  <2>9. Walked'
    BY <1>3, <1>7, <1>10, <1>11, <1>12, <1>13, <2>4, <2>5, <2>7, <2>8 DEF Walked
  <2> QED BY <1>2, <2>9 DEF WalkInv
<1>15. CASE group # <<>>
  <2>1. PICK r, o : Ordered(o) /\ Awaited(o) /\ Reasons(r) /\ Following(r, o)
    BY <1>9, <1>15 DEF Walked
  <2>2. /\ o \in [1 .. Len(toVisit) -> 1 .. Len(group)]
        /\ \A k \in 1 .. Len(toVisit) : o[1] <= o[k] /\ o[k] \in 1 .. Len(group)
        /\ l \in Needs(group[o[1]]) /\ o[1] \in 1 .. Len(group)
    <3>1. 1 \in 1 .. Len(toVisit) /\ \A k \in 1 .. Len(toVisit) : 1 <= k
      BY <1>5
    <3>2. o \in [1 .. Len(toVisit) -> 1 .. Len(group)]
      BY <2>1 DEF Ordered
    <3>3. \A k \in 1 .. Len(toVisit) : o[k] \in 1 .. Len(group)
      BY <3>2
    <3>4. \A k \in 1 .. Len(toVisit) : o[1] <= o[k]
      BY <2>1, <3>1 DEF Ordered
    <3>5. l \in Needs(group[o[1]])
      BY <1>5, <2>1, <3>1 DEF Ordered
    <3> QED BY <3>1, <3>2, <3>3, <3>4, <3>5
  <2>3. PICK first \in 1 .. Len(group) :
           /\ first = o[1] /\ l \in Needs(group[first])
           /\ \A k \in 1 .. Len(toVisit) : first <= o[k]
    BY <2>2
  <2>4. PICK p, q :
          /\ p = [k \in 1 .. Len(toVisit') |-> IF k <= old THEN o[k + 1] ELSE new]
          /\ q = [i \in 1 .. new |-> IF i = new THEN first ELSE r[i]]
    OBVIOUS
  <2>5. /\ \A k \in 1 .. old : k \in 1 .. Len(toVisit') /\ k + 1 \in 1 .. Len(toVisit)
                               /\ p[k] = o[k + 1]
        /\ \A k \in old + 1 .. Len(toVisit') : k \in 1 .. Len(toVisit') /\ p[k] = new
        /\ 1 .. Len(toVisit') = 1 .. old \cup (old + 1 .. Len(toVisit'))
    BY <1>5, <1>6, <2>4
  <2>6. /\ \A i \in 1 .. Len(group) : q[i] = r[i] /\ i \in 1 .. new
        /\ q[new] = first /\ new \in 1 .. new
    BY <1>3, <2>4, <2>3
  <2>7. p \in [1 .. Len(toVisit') -> 1 .. new] /\ q \in [1 .. new -> Nat]
    <3>1. ASSUME NEW k \in 1 .. Len(toVisit') PROVE p[k] \in 1 .. new
      <4>1. CASE k \in 1 .. old
        <5>1. p[k] = o[k + 1] /\ o[k + 1] \in 1 .. Len(group)
          BY <2>2, <2>5, <4>1
        <5> QED BY <1>3, <5>1
      <4>2. CASE k \in old + 1 .. Len(toVisit')
        BY <1>3, <2>5, <4>2
      <4> QED BY <2>5, <4>1, <4>2
    <3>2. \A i \in 1 .. new : q[i] \in Nat
      BY <1>7, <2>1, <2>2, <2>3, <2>6 DEF Reasons
    <3> QED BY <2>4, <3>1, <3>2
  <2>8. Ordered(p)'
    <3>1. \A k \in 1 .. Len(toVisit') : toVisit'[k] \in Needs(group'[p[k]])
      <4>1. \A k \in 1 .. old : toVisit'[k] \in Needs(group'[p[k]])
        <5> TAKE k \in 1 .. old
        <5>1. toVisit'[k] = toVisit[k + 1] /\ p[k] = o[k + 1] /\ o[k + 1] \in 1 .. Len(group)
              /\ k + 1 \in 1 .. Len(toVisit)
          BY <1>6, <2>2, <2>3, <2>5
        <5>2. group'[p[k]] = group[o[k + 1]]
          BY <1>7, <5>1
        <5> QED BY <2>1, <5>1, <5>2 DEF Ordered
      <4>2. \A k \in old + 1 .. Len(toVisit') : toVisit'[k] \in Needs(group'[p[k]])
        BY <1>6, <1>7, <2>5
      <4> QED BY <2>5, <4>1, <4>2
    <3>2. ASSUME NEW k \in 1 .. Len(toVisit'), NEW m \in 1 .. Len(toVisit'), k <= m
          PROVE  p[k] <= p[m]
      <4>1. CASE m \in old + 1 .. Len(toVisit')
        <5>1. p[m] = new /\ p[k] \in 1 .. new
          BY <2>5, <2>7, <4>1
        <5> QED BY <1>3, <5>1
      <4>2. CASE m \in 1 .. old
        <5>1. k \in 1 .. old /\ k + 1 <= m + 1
          BY <1>5, <1>6, <3>2, <4>2
        <5>2. o[k + 1] <= o[m + 1]
          BY <2>1, <2>5, <4>2, <5>1 DEF Ordered
        <5> QED BY <2>5, <4>2, <5>1, <5>2
      <4> QED BY <2>5, <4>1, <4>2
    <3> QED BY <1>3, <1>7, <2>7, <3>1, <3>2 DEF Ordered
  <2>9. Awaited(p)'
    <3> SUFFICES ASSUME NEW j \in 1 .. new, NEW x \in Needs(group'[j]), x \notin visited'
                 PROVE  \E k \in 1 .. Len(toVisit') : toVisit'[k] = x /\ p[k] = j
      BY <1>3, <1>7 DEF Awaited
    <3>1. CASE j = new
      <4>1. x \in Needs(l)
        BY <1>7, <3>1
      <4> QED BY <1>6, <2>5, <3>1, <4>1
    <3>2. CASE j \in 1 .. Len(group)
      <4>1. x \in Needs(group[j]) /\ x \notin visited /\ x # l
        BY <1>2, <1>7, <3>2
      <4>2. PICK k \in 1 .. Len(toVisit) : toVisit[k] = x /\ o[k] = j
        BY <2>1, <3>2, <4>1 DEF Awaited
      <4>3. k # 1
        BY <1>5, <4>1, <4>2
      <4>4. k - 1 \in 1 .. old /\ k - 1 + 1 = k
        BY <1>5, <4>3
      <4> QED BY <1>6, <2>5, <4>2, <4>4
    <3> QED BY <1>7, <3>1, <3>2
  <2>10. ASSUME NEW j \in 1 .. first - 1 PROVE l \notin Needs(group[j])
    <3>1. j \in 1 .. Len(group) /\ j < first
      BY <1>4
    <3>2. ~\E k \in 1 .. Len(toVisit) : o[k] = j
      BY <2>2, <2>3, <3>1
    <3> QED BY <1>2, <2>1, <3>1, <3>2 DEF Awaited
  <2>11. Reasons(q)'
    <3>1. ASSUME NEW i \in 2 .. new
          PROVE  /\ q[i] \in 1 .. i - 1
                 /\ group'[i] \in Needs(group'[q[i]])
                 /\ \A j \in 1 .. q[i] - 1 : group'[i] \notin Needs(group'[j])
      <4>1. CASE i = new
        <5>1. q[i] = first /\ group'[i] = l /\ q[i] \in 1 .. i - 1
          BY <1>3, <1>7, <2>2, <2>3, <2>6, <4>1
        <5>2. group'[q[i]] = group[first]
          BY <1>7, <2>2, <2>3, <5>1
        <5>3. \A j \in 1 .. first - 1 : j \in 1 .. Len(group) /\ group'[j] = group[j]
          <6>1. \A j \in 1 .. first - 1 : j \in 1 .. Len(group)
            BY <1>4
          <6> QED BY <1>7, <6>1
        <5> QED BY <2>2, <2>3, <2>10, <5>1, <5>2, <5>3
      <4>2. CASE i # new
        <5>1. i \in 2 .. Len(group) /\ i \in 1 .. Len(group)
          BY <1>3, <4>2
        <5>2. /\ r[i] \in 1 .. i - 1 /\ group[i] \in Needs(group[r[i]])
              /\ \A j \in 1 .. r[i] - 1 : group[i] \notin Needs(group[j])
          BY <2>1, <5>1 DEF Reasons
        <5>3. \A j \in 1 .. r[i] : j \in 1 .. Len(group)
          BY <1>3, <5>1, <5>2
        <5>4. group'[i] = group[i] /\ q[i] = r[i] /\ group'[r[i]] = group[r[i]]
          BY <1>7, <2>6, <5>1, <5>2, <5>3
        <5>5. \A j \in 1 .. r[i] - 1 : group'[j] = group[j]
          BY <1>7, <5>2, <5>3
        <5> QED BY <5>2, <5>4, <5>5
      <4> QED BY <4>1, <4>2
    <3>2. ASSUME NEW i \in 2 .. new, NEW j \in 2 .. new, i <= j PROVE q[i] <= q[j]
      <4>1. CASE j # new
        <5>1. i \in 2 .. Len(group) /\ j \in 2 .. Len(group)
          BY <1>3, <3>2, <4>1
        <5>2. q[i] = r[i] /\ q[j] = r[j]
          BY <2>6, <5>1
        <5> QED BY <2>1, <3>2, <5>1, <5>2 DEF Reasons
      <4>2. CASE j = new /\ i # new
        <5>1. i \in 2 .. Len(group)
          BY <1>3, <4>2
        <5>2. q[i] = r[i] /\ q[j] = first /\ 1 \in 1 .. Len(toVisit)
          BY <1>5, <2>6, <4>2, <5>1
        <5> QED BY <2>1, <2>3, <5>1, <5>2 DEF Following
      <4>3. CASE j = new /\ i = new
        BY <2>2, <2>3, <2>6, <4>3
      <4> QED BY <4>1, <4>2, <4>3
    <3> QED BY <1>3, <1>7, <2>7, <3>1, <3>2 DEF Reasons
  <2>12. Following(q, p)'
    <3>1. ASSUME NEW i \in 2 .. new, NEW k \in 1 .. Len(toVisit') PROVE q[i] <= p[k]
      <4>1. q[i] <= first /\ q[i] \in Nat
        <5>1. CASE i = new
          BY <2>2, <2>3, <2>6, <5>1
        <5>2. CASE i # new
          <6>1. i \in 2 .. Len(group) /\ 1 \in 1 .. Len(toVisit)
            BY <1>3, <1>5, <5>2
          <6>2. q[i] = r[i] /\ q[i] \in Nat
            BY <1>3, <2>1, <2>6, <6>1 DEF Reasons
          <6> QED BY <2>1, <2>3, <6>1, <6>2 DEF Following
        <5> QED BY <5>1, <5>2
      <4>2. first <= p[k] /\ p[k] \in Nat
        <5>1. CASE k \in 1 .. old
          BY <2>2, <2>3, <2>5, <5>1
        <5>2. CASE k \in old + 1 .. Len(toVisit')
          <6>1. p[k] = new /\ first < new /\ first \in Nat /\ new \in Nat
            BY <1>3, <1>4, <2>5, <5>2
          <6> QED BY <6>1
        <5> QED BY <2>5, <5>1, <5>2
      <4> QED BY <2>2, <2>3, <4>1, <4>2
    <3> QED BY <1>7, <3>1 DEF Following
  <2>13. Walked'
    BY <1>3, <1>7, <1>10, <1>11, <1>12, <1>13, <2>8, <2>9, <2>11, <2>12 DEF Walked
  <2> QED BY <1>2, <2>13 DEF WalkInv
<1> QED BY <1>14, <1>15

LEMMA WalkedStays ==
  ASSUME Walked, UNCHANGED <<process, newSoinfo, root, toVisit, visited, group>>
  PROVE  Walked'
<1>1. /\ near' = near /\ Members' = Members /\ \A l : Needs(l)' = Needs(l)
      /\ primary' = primary
  BY NearStays DEF Members
<1>2. /\ \A o : Ordered(o)' <=> Ordered(o)
      /\ \A o : Awaited(o)' <=> Awaited(o)
  BY <1>1 DEF Ordered, Awaited
<1>3. \A r : Reasons(r)' <=> Reasons(r)
  BY <1>1 DEF Reasons
<1>4. \A r, o : Following(r, o)' <=> Following(r, o)
  BY DEF Following
<1> QED BY <1>1, <1>2, <1>3, <1>4 DEF Walked

LEMMA WalkKept ==
  ASSUME Inv, WalkInv, [Next]_vars
  PROVE  WalkInv'
<1>1. CASE \E l \in Lib : Relink(l)
  BY <1>1, WalkBegins
<1>2. CASE Visit
  BY <1>2, LibraryComes
<1>3. CASE VisitAgain
  BY <1>3, EntryLeaves DEF VisitAgain
<1>4. CASE VisitSkips
  BY <1>4, EntryLeaves DEF VisitSkips
<1>5. CASE WalkDone
  <2>1. /\ pc = "walk" /\ toVisit' = <<>>
        /\ UNCHANGED <<process, newSoinfo, root, toVisit, visited, group>>
    BY <1>5 DEF WalkDone, walk
  <2>2. Walked'
    BY <2>1, WalkedStays DEF WalkInv
  <2> QED BY <2>1, <2>2 DEF WalkInv
<1>6. CASE UNCHANGED vars
  <2>1. UNCHANGED <<pc, process, newSoinfo, root, toVisit, visited, group>>
    BY <1>6 DEF vars, walk
  <2> QED BY <2>1, WalkedStays DEF WalkInv
<1>7. CASE \/ EndRelink \/ NextEntry \/ NoneLeft
           \/ BloomHolds \/ BucketEmpty \/ BucketBegins
           \/ ChainHit \/ ChainNext \/ ChainEnds \/ SysvHit \/ SysvNext \/ SysvEnds
           \/ Return
           \/ \E s \in Name, v \in Version \cup {NoVersion} : Search(s, v)
           \/ \E l \in Lib : \/ BuildList(l) \/ ListExports(l) \/ OtherRelink(l)
                             \/ \E s \in Name : Find(l, s)
                             \/ \E p \in Prefix : FindPrefix(l, p)
  <2>1. pc' \notin {"walk", "list"}
    BY <1>7
       DEF EndRelink, NextEntry, NoneLeft, LookInto, BloomHolds, BucketEmpty, BucketBegins,
           ChainHit, ChainNext, ChainEnds, SysvHit, SysvNext, SysvEnds, Takes, Miss, Return,
           Search, BuildList, ListExports, OtherRelink, Holding, Find, FindPrefix
  <2> QED BY <2>1 DEF WalkInv
<1> QED BY <1>1, <1>2, <1>3, <1>4, <1>5, <1>6, <1>7 DEF Next

LEMMA WalkIsInOrder == Inv /\ WalkInv => GroupInOrder
<1> SUFFICES ASSUME Inv, WalkInv, pc = "list"
             PROVE  GroupInOrder
  BY DEF GroupInOrder
<1> DEFINE NeededBy(i) == {j \in DOMAIN group : group[i] \in Needs(group[j])}
           Reason(i) == CHOOSE j \in NeededBy(i) : \A k \in NeededBy(i) : j <= k
<1>1. /\ group \in Seq(Lib) /\ Len(group) \in Nat /\ DOMAIN group = 1 .. Len(group)
      /\ toVisit = <<>> /\ 1 .. Len(toVisit) = {} /\ Walked
  BY DEF WalkInv, Inv, TypeOK
<1>2. \A i, j \in DOMAIN group : i # j => group[i] # group[j]
  BY <1>1 DEF Walked
<1>3. IF root \in near THEN group # <<>> /\ group[1] = root
                       ELSE ~process.lp64 /\ group = <<>>
  <2>1. root \notin near => ~process.lp64
    <3>1. root \in primary /\ primary \subseteq Lib
      BY <1>1, LookupAssumption DEF Walked, Inv, TypeOK, primary
    <3> QED BY <3>1 DEF near, Accessible, HasMinVersion
  <2>2. group = <<>> => root \notin near
    BY <1>1 DEF Walked
  <2>3. group # <<>> => group[1] = root /\ root \in near
    BY <1>1 DEF Walked
  <2> QED BY <2>1, <2>2, <2>3
<1>4. \A m \in Members : Needs(m) \cap near \subseteq Members
  <2> TAKE m \in Members
  <2>1. PICK j \in 1 .. Len(group) : m = group[j]
    BY <1>1 DEF Members
  <2>2. group # <<>>
    BY <1>1, <2>1
  <2>3. Needs(m) \subseteq visited
    BY <1>1, <2>1, <2>2 DEF Walked, Awaited
  <2> QED BY <1>1, <2>3 DEF Walked
<1>5. CASE group = <<>>
  <2>1. 2 .. Len(group) = {}
    BY <1>5
  <2> QED BY <1>2, <1>3, <1>4, <2>1 DEF GroupInOrder
<1>6. CASE group # <<>>
  <2>1. PICK r : Reasons(r)
    BY <1>1, <1>6 DEF Walked
  <2>2. ASSUME NEW i \in 2 .. Len(group)
        PROVE  NeededBy(i) # {} /\ Reason(i) = r[i] /\ r[i] < i /\ r[i] \in Nat
    <3>1. /\ r[i] \in 1 .. i - 1 /\ group[i] \in Needs(group[r[i]])
          /\ \A j \in 1 .. r[i] - 1 : group[i] \notin Needs(group[j])
      BY <2>1 DEF Reasons
    <3>2. r[i] \in NeededBy(i) /\ r[i] \in Nat /\ r[i] < i
      BY <1>1, <3>1
    <3>3. \A k \in NeededBy(i) : k \in Nat /\ r[i] <= k
      <4> TAKE k \in NeededBy(i)
      <4>1. k \in 1 .. Len(group) /\ group[i] \in Needs(group[k])
        BY <1>1
      <4>2. k \notin 1 .. r[i] - 1
        BY <3>1, <4>1
      <4> QED BY <1>1, <3>2, <4>1, <4>2
    <3> HIDE DEF NeededBy
    <3>4. Reason(i) \in NeededBy(i) /\ \A k \in NeededBy(i) : Reason(i) <= k
      BY <3>2, <3>3
    <3>5. Reason(i) = r[i]
      BY <3>2, <3>3, <3>4
    <3> QED BY <3>2, <3>5
  <2>3. \A i, j \in 2 .. Len(group) : i < j => r[i] <= r[j]
    BY <2>1 DEF Reasons
  <2>4. /\ \A i \in 2 .. Len(group) : NeededBy(i) # {} /\ Reason(i) < i
        /\ \A i, j \in 2 .. Len(group) : i < j => Reason(i) <= Reason(j)
    <3> HIDE DEF NeededBy, Reason
    <3> QED BY <2>2, <2>3
  <2> QED BY <1>2, <1>3, <1>4, <2>4 DEF GroupInOrder
<1> QED BY <1>5, <1>6

(* walk_dependencies_tree gives a relink the root and what it needs, each  *)
(* library once and in breadth-first order, whatever circles they form;    *)
(* it leaves out what the namespace cannot access, and what only that      *)
(* needs. Only on a 32-bit ABI can the root be left out: then all is.      *)
THEOREM GroupInOrderCorrect == Spec => []GroupInOrder
<1>1. Init => WalkInv
  BY DEF Init, WalkInv
<1>2. Spec => []WalkInv
  BY <1>1, WalkKept, InvCorrect, PTL DEF Spec
<1> QED BY <1>2, WalkIsInOrder, InvCorrect, PTL
=============================================================================
