---------------------------- MODULE SymbolLookup ----------------------------
(***************************************************************************)
(* Which symbol a name means: in one library (find_export_symbol_by_name,  *)
(* the exported symbols of ManualRelinkLibraries), and in the libraries a  *)
(* relink resolves in (walk_dependencies_tree, SymbolLookupList,           *)
(* soinfo_do_lookup).                                                      *)
(*                                                                         *)
(* A library brings a dynamic symbol table and the hash tables the static  *)
(* linker made of it; WellFormed says what the code relies on in them.     *)
(* Index 0 is the null symbol, and the end of a SysV list.  From Android   *)
(* 7.0 on, without tracing of lookups.  A relink holds g_dl_mutex while it *)
(* resolves; a call that looks into one library holds nothing, and may     *)
(* meet a relink of another thread.  The list is handed to link_image of   *)
(* the linker; the search in it is the one linker_soinfo.cpp has.          *)
(***************************************************************************)
EXTENDS Naturals, Sequences, FiniteSets

CONSTANTS
  Lib,         (* the loaded libraries                                     *)
  Name,        (* names of symbols                                         *)
  Version,     (* names of versions                                        *)
  NoLib, NoName, NoVersion,
  Hash,        (* calculate_gnu_hash                                       *)
  ElfHash,     (* calculate_elf_hash                                       *)
  Process,     (* processes: their libraries and one namespace of them     *)
  Prefix       (* prefixes: the names that begin with them                 *)

Index(im) == 1 .. Len(im.sym)
Hashed(im) == im.offset .. Len(im.sym)
GnuBucket(im, s) == Hash[s] % im.nbuckets
SysvBucket(im, s) == ElfHash[s] % im.nlists

Symbol ==
  [name : Name, bind : {"global", "weak", "local"}, defined : BOOLEAN,
   shown : BOOLEAN, ver : Nat, old : BOOLEAN]

(* gnu_bucket is im.first.  The table covers what the library defines for  *)
(* others, bucket by bucket, and is not empty.                             *)
GnuWellFormed(im) ==
  /\ im.offset \in Index(im)
  /\ im.nbuckets \in Nat \ {0}
  /\ im.first \in [0 .. im.nbuckets - 1 -> 0 .. Len(im.sym)]
  /\ \A i \in Index(im) : i \in Hashed(im) <=>
       im.sym[i].defined /\ im.sym[i].bind # "local"
  /\ \A i \in Hashed(im) :
       LET first == im.first[GnuBucket(im, im.sym[i].name)]
       IN  first # 0 /\ first <= i
  /\ \A b \in 0 .. im.nbuckets - 1 : im.first[b] # 0 =>
       im.first[b] \in Hashed(im) /\ GnuBucket(im, im.sym[im.first[b]].name) = b
  /\ \A i, j \in Hashed(im) : i <= j =>
       GnuBucket(im, im.sym[i].name) <= GnuBucket(im, im.sym[j].name)

(* bucket and chain of DT_HASH are im.head and im.next: every list holds   *)
(* the symbols of its bucket, the later ones first.                        *)
SysvWellFormed(im) ==
  /\ im.nlists \in Nat \ {0}
  /\ im.head \in [0 .. im.nlists - 1 -> 0 .. Len(im.sym)]
  /\ im.next \in [Index(im) -> 0 .. Len(im.sym)]
  /\ \A b \in 0 .. im.nlists - 1 : im.head[b] # 0 =>
       SysvBucket(im, im.sym[im.head[b]].name) = b
  /\ \A i \in Index(im) :
       LET b == SysvBucket(im, im.sym[i].name)
       IN  /\ i <= im.head[b]
           /\ im.next[i] < i
           /\ im.next[i] # 0 => SysvBucket(im, im.sym[im.next[i]].name) = b
           /\ \A j \in Index(im) :
                j < i /\ SysvBucket(im, im.sym[j].name) = b => j <= im.next[i]

WellFormed(im) ==
  /\ im.sym \in Seq(Symbol)
  /\ im.gnu \in BOOLEAN /\ im.sysv \in BOOLEAN
  /\ im.gnu \/ im.sysv
  /\ im.gnu => GnuWellFormed(im)
  /\ im.sysv => SysvWellFormed(im)
  /\ im.versioned \in BOOLEAN
  /\ im.verdef \in [Version -> Nat \ {0}]

ASSUME LookupAssumption ==
  /\ Lib # {}
  /\ Hash \in [Name -> Nat]
  /\ ElfHash \in [Name -> Nat]
  /\ NoLib \notin Lib /\ NoName \notin Name
  /\ NoVersion \notin Version
  /\ Prefix \subseteq SUBSET Name
  /\ \A p \in Process :
       /\ DOMAIN p.image = Lib /\ \A l \in Lib : WellFormed(p.image[l])
       /\ p.children \in [Lib -> Seq(Lib)]
       /\ p.lp64 \in BOOLEAN
       /\ p.primary \subseteq Lib /\ p.secondary \subseteq Lib
       /\ p.global \in Seq(Lib)
       /\ p.symbolic \subseteq Lib

VARIABLES
  process,
  flag,     (* the libraries with FLAG_GNU_HASH                            *)
  newSoinfo, (* the libraries with FLAG_NEW_SOINFO                         *)
  pc,
  root,     (* the library of the relink                                   *)
  toVisit,  (* visit_list                                                  *)
  visited,
  group,    (* local_group                                                 *)
  entries,  (* SymbolLookupList: from begin_ to end_                       *)
  slow,     (* slow_path_count_                                            *)
  it,       (* the entry that comes next                                   *)
  caller,   (* "name", "group", "prefix" or "list"; "none" between calls   *)
  name,     (* the name asked for                                          *)
  prefix,   (* the names that begin with the prefix asked for              *)
  ver,      (* the version asked for                                       *)
  lib,      (* the library that is looked into                             *)
  versym,   (* its version table has been there for this lookup            *)
  n,        (* the symbol that is looked at                                *)
  found,    (* the result: an index in lib, or 0                           *)
  exports   (* the result of a list: names                                 *)

image == process.image       \* library -> its tables
children == process.children \* library -> the libraries it needs, in order
primary == process.primary   \* the libraries of a namespace
secondary == process.secondary \* those that are in it besides
global == process.global     \* the global libraries of that namespace
symbolic == process.symbolic \* the libraries with DT_SYMBOLIC

walk == <<root, toVisit, visited, group>>
list == <<entries, slow, it>>
request == <<caller, name, prefix, ver>>
seen == <<lib, versym>>
result == <<found, exports>>
flags == <<flag, newSoinfo>>
vars == <<process, flags, pc, walk, list, request, seen, n, result>>

Here == image[lib]
At == Here.sym[n]
Needs(l) == {children[l][i] : i \in DOMAIN children[l]}

(* has_min_version, from Android 7.0 on: no question on the 64-bit ABIs;   *)
(* on the others (__work_around_b_24465209__) FLAG_NEW_SOINFO is tested.   *)
HasMinVersion(l) == process.lp64 \/ l \in newSoinfo

(* is_accessible, for the namespace of a relink.                           *)
Accessible(l) ==
  \/ HasMinVersion(l) /\ l \in primary \cup secondary
  \/ \E p \in primary : HasMinVersion(p) /\ l \in Needs(p)

near == {l \in Lib : Accessible(l)}

Init ==
  /\ process \in Process
  /\ flag = {l \in Lib : image[l].gnu}
  /\ newSoinfo = Lib
  /\ pc = "idle"
  /\ root = NoLib
  /\ toVisit = <<>> /\ visited = {} /\ group = <<>>
  /\ entries = <<>> /\ slow = 0 /\ it = 1
  /\ caller = "none" /\ name = NoName /\ prefix = {} /\ ver = NoVersion
  /\ lib = (CHOOSE l \in Lib : TRUE) /\ versym = FALSE
  /\ n = 0 /\ found = 0 /\ exports = {}

-----------------------------------------------------------------------------
(***************************************************************************)
(* The libraries of a relink: walk_dependencies_tree.                      *)
(***************************************************************************)

(* set_unlinked: every flag goes, FLAG_GNU_HASH and FLAG_NEW_SOINFO too.   *)
Unlinked(l) ==
  /\ flag' = flag \ {l}
  /\ newSoinfo' = newSoinfo \ {l}

(* The namespace is the library's own.  That it can access the library is  *)
(* asked when the flags are gone, in the walk.                             *)
Relink(l) ==
  /\ pc = "idle"
  /\ l \in primary
  /\ Unlinked(l)
  /\ pc' = "walk"
  /\ root' = l
  /\ toVisit' = <<l>>
  /\ visited' = {}
  /\ group' = <<>>
  /\ UNCHANGED <<process, list, request, seen, n, result>>

(* Mutant of VisitAgain: looks at the front of visit_list without popping. *)
VisitAgainKept ==
  /\ pc = "walk"
  /\ toVisit # <<>>
  /\ Head(toVisit) \in visited
  /\ UNCHANGED vars

VisitAgain ==
  /\ pc = "walk"
  /\ toVisit # <<>>
  /\ Head(toVisit) \in visited
  /\ toVisit' = Tail(toVisit)
  /\ UNCHANGED <<process, flags, pc, root, visited, group, list, request, seen, n, result>>

Visit ==
  /\ pc = "walk"
  /\ toVisit # <<>>
  /\ LET l == Head(toVisit)
     IN  /\ l \in near \ visited
         /\ group' = Append(group, l)
         /\ visited' = visited \cup {l}
         /\ toVisit' = Tail(toVisit) \o children[l]
  /\ UNCHANGED <<process, flags, pc, root, list, request, seen, n, result>>

(* Mutant of VisitSkips: goes on to what the library needs.                *)
VisitSkipsDeep ==
  /\ pc = "walk"
  /\ toVisit # <<>>
  /\ Head(toVisit) \notin near \cup visited
  /\ visited' = visited \cup {Head(toVisit)}
  /\ toVisit' = Tail(toVisit) \o children[Head(toVisit)]
  /\ UNCHANGED <<process, flags, pc, root, group, list, request, seen, n, result>>

(* kWalkSkip: neither the library nor what it needs is in the group.       *)
VisitSkips ==
  /\ pc = "walk"
  /\ toVisit # <<>>
  /\ Head(toVisit) \notin near \cup visited
  /\ visited' = visited \cup {Head(toVisit)}
  /\ toVisit' = Tail(toVisit)
  /\ UNCHANGED <<process, flags, pc, root, group, list, request, seen, n, result>>

WalkDone ==
  /\ pc = "walk"
  /\ toVisit = <<>>
  /\ pc' = "list"
  /\ UNCHANGED <<process, flags, walk, list, request, seen, n, result>>

-----------------------------------------------------------------------------
(***************************************************************************)
(* SymbolLookupList and soinfo_do_lookup.                                  *)
(***************************************************************************)

(* get_lookup_lib: what an entry knows of its library from then on.        *)
LookupLib(l) == [lib |-> l, gnu |-> l \in flag]

NeedsSysv(list1) == {i \in DOMAIN list1 : ~list1[i].gnu}

(* Mutant of BuildList: the local group's libraries are not counted.       *)
BuildListUncounted(l) ==
  /\ pc = "list"
  /\ l \in primary
  /\ \E i \in DOMAIN group : group[i] = l
  /\ LET own == IF l \in symbolic THEN <<l>> ELSE <<>>
         libs == own \o global \o group
     IN  /\ entries' = [i \in DOMAIN libs |-> LookupLib(libs[i])]
         /\ slow' = Cardinality({i \in NeedsSysv(entries') : i <= Len(own \o global)})
  /\ pc' = "search"
  /\ UNCHANGED <<process, flags, walk, it, request, seen, n, result>>

(* The list for a library of the group and of the root's own namespace,    *)
(* set_dt_symbolic_lib included.  Which of them are not linked is left     *)
(* open here; Relink keeps that flag.                                      *)
BuildList(l) ==
  /\ pc = "list"
  /\ l \in primary
  /\ \E i \in DOMAIN group : group[i] = l
  /\ LET own == IF l \in symbolic THEN <<l>> ELSE <<>>
         libs == own \o global \o group
     IN  entries' = [i \in DOMAIN libs |-> LookupLib(libs[i])]
  /\ slow' = Cardinality(NeedsSysv(entries'))
  /\ pc' = "search"
  /\ UNCHANGED <<process, flags, walk, it, request, seen, n, result>>

Search(s, v) ==
  /\ pc = "search"
  /\ caller' = "group"
  /\ name' = s
  /\ prefix' = {}
  /\ ver' = v
  /\ it' = 1
  /\ pc' = "next"
  /\ UNCHANGED <<process, flags, walk, entries, slow, seen, n, result>>

(* Without a library in the group there is none to link: the relink is     *)
(* through at once.                                                        *)
EndRelink ==
  /\ pc = "search" \/ (pc = "list" /\ group = <<>>)
  /\ pc' = "idle"
  /\ root' = NoLib /\ toVisit' = <<>> /\ visited' = {} /\ group' = <<>>
  /\ entries' = <<>> /\ slow' = 0 /\ it' = 1
  /\ UNCHANGED <<process, flags, request, seen, n, result>>

(* find_symbol_by_name: a library without DT_HASH has a null bucket.       *)
LookInto(l, s) ==
  /\ lib' = l
  /\ versym' = HasMinVersion(l)
  /\ \/ /\ l \in flag
        /\ pc' = "probe"
        /\ n' = 0
     \/ /\ l \notin flag
        /\ image[l].sysv
        /\ pc' = "sysv"
        /\ n' = image[l].head[SysvBucket(image[l], s)]
     \/ /\ l \notin flag
        /\ ~image[l].sysv
        /\ pc' = "fault"
        /\ n' = 0

Entry == entries[it]

(* soinfo_do_lookup_impl<true> gives SysV entries to their library;        *)
(* soinfo_do_lookup_impl<false> reads the bloom filter of every entry.  An *)
(* entry's version table has been read with the list, under g_dl_mutex: it *)
(* is what get_versym_table would give now.                                *)
NextEntry ==
  /\ pc = "next"
  /\ it <= Len(entries)
  /\ it' = it + 1
  /\ \/ /\ Entry.gnu
        /\ pc' = "probe"
        /\ lib' = Entry.lib
        /\ versym' = HasMinVersion(Entry.lib)
        /\ n' = 0
     \/ /\ ~Entry.gnu
        /\ slow > 0
        /\ LookInto(Entry.lib, name)
     \/ /\ ~Entry.gnu
        /\ slow = 0
        /\ pc' = "fault"
        /\ lib' = Entry.lib
        /\ versym' = HasMinVersion(Entry.lib)
        /\ n' = 0
  /\ UNCHANGED <<process, flags, walk, entries, slow, request, result>>

NoneLeft ==
  /\ pc = "next"
  /\ it > Len(entries)
  /\ found' = 0
  /\ pc' = "found"
  /\ UNCHANGED <<process, flags, walk, list, request, seen, n, exports>>

-----------------------------------------------------------------------------
(***************************************************************************)
(* One library.                                                            *)
(***************************************************************************)
(* find_verdef_version_index: kVersymNotNeeded, the index of the version,  *)
(* or kVersymGlobal if the library does not define it.                     *)
VersionIndex(im, v) == IF v = NoVersion THEN 0 ELSE im.verdef[v]

(* check_symbol_version: without the table every version is accepted,      *)
(* although the library has versions.                                      *)
VersionFits(im, i, v, table) ==
  \/ ~table
  \/ ~im.versioned
  \/ v = NoVersion /\ ~im.sym[i].old
  \/ v # NoVersion /\ im.sym[i].ver = VersionIndex(im, v)

GlobalAndDefined(sym) == sym.bind \in {"global", "weak"} /\ sym.defined

(* Mutants of Hit: old versions count, and symbols that are only imported. *)
HitAnyVersion ==
  /\ At.name = name
  /\ \/ caller = "name" /\ pc = "chain"
     \/ GlobalAndDefined(At)

HitImported ==
  /\ VersionFits(Here, n, ver, versym)
  /\ At.name = name

(* gnu_lookup leaves out is_symbol_global_and_defined, the others do not.  *)
Hit ==
  /\ VersionFits(Here, n, ver, versym)
  /\ At.name = name
  /\ \/ caller = "name" /\ pc = "chain"
     \/ GlobalAndDefined(At)

Find(l, s) ==
  /\ pc = "idle"
  /\ caller' = "name"
  /\ name' = s
  /\ prefix' = {}
  /\ ver' = NoVersion
  /\ LookInto(l, s)
  /\ UNCHANGED <<process, flags, walk, list, result>>

(* The library has it not: on with the list, or null.                      *)
Miss ==
  /\ IF caller = "group" THEN pc' = "next" /\ found' = found
                         ELSE pc' = "found" /\ found' = 0
  /\ UNCHANGED <<process, flags, walk, list, request, seen, n, exports>>

Takes ==
  /\ pc' = "found"
  /\ found' = n
  /\ UNCHANGED <<process, flags, walk, list, request, seen, n, exports>>

First == Here.first[GnuBucket(Here, name)]

(* The bloom filter may let a name through that the table has not, but     *)
(* never holds one back that it has.                                       *)
BloomHolds ==
  /\ pc = "probe"
  /\ \A i \in Hashed(Here) : Hash[Here.sym[i].name] # Hash[name]
  /\ Miss

BucketEmpty ==
  /\ pc = "probe"
  /\ First = 0
  /\ Miss

(* gnu_lookup calls get_versym_table here.                                 *)
BucketBegins ==
  /\ pc = "probe"
  /\ First # 0
  /\ pc' = "chain"
  /\ n' = First
  /\ versym' = IF caller = "name" THEN HasMinVersion(lib) ELSE versym
  /\ UNCHANGED <<process, flags, walk, list, request, lib, result>>

(* The low bit of gnu_chain()[i] is 0; its others are those of the hash.   *)
GoesOn(im, i) ==
  /\ i < Len(im.sym)
  /\ GnuBucket(im, im.sym[i + 1].name) = GnuBucket(im, im.sym[i].name)

SameHash == Hash[At.name] \div 2 = Hash[name] \div 2

ChainHit ==
  /\ pc = "chain"
  /\ SameHash
  /\ Hit
  /\ Takes

ChainNext ==
  /\ pc = "chain"
  /\ ~(SameHash /\ Hit)
  /\ GoesOn(Here, n)
  /\ n' = n + 1
  /\ UNCHANGED <<process, flags, pc, walk, list, request, seen, result>>

ChainEnds ==
  /\ pc = "chain"
  /\ ~(SameHash /\ Hit)
  /\ ~GoesOn(Here, n)
  /\ Miss

SysvHit ==
  /\ pc = "sysv"
  /\ n # 0
  /\ Hit
  /\ Takes

SysvNext ==
  /\ pc = "sysv"
  /\ n # 0
  /\ ~Hit
  /\ n' = Here.next[n]
  /\ UNCHANGED <<process, flags, pc, walk, list, request, seen, result>>

SysvEnds ==
  /\ pc = "sysv"
  /\ n = 0
  /\ Miss

Return ==
  /\ pc = "found"
  /\ pc' = IF caller = "group" THEN "search" ELSE "idle"
  /\ caller' = "none" /\ name' = NoName /\ prefix' = {} /\ ver' = NoVersion
  /\ it' = 1 /\ versym' = FALSE /\ n' = 0 /\ found' = 0 /\ exports' = {}
  /\ UNCHANGED <<process, flags, walk, entries, slow, lib>>

-----------------------------------------------------------------------------
(***************************************************************************)
(* get_global_soinfo_export_symbols and find_export_symbol_by_prefix.      *)
(***************************************************************************)

(* The words of a GNU table that gnu_chain()[i] may be odd in: the chain,  *)
(* below it the buckets, and before them the bloom filter.                 *)
Odd(im, i) ==
  IF i >= im.offset THEN {~GoesOn(im, i)}
  ELSE IF im.offset - i <= im.nbuckets
       THEN {im.first[im.nbuckets - (im.offset - i)] % 2 = 1}
       ELSE BOOLEAN

(* get_export_symbol_gnu_table_size: from the last bucket's first symbol   *)
(* to the first odd word.                                                  *)
TableEnds(im) ==
  LET max == im.first[im.nbuckets - 1]
  IN  {i \in max .. Len(im.sym) :
         TRUE \in Odd(im, i) /\ \A j \in max .. i - 1 : FALSE \in Odd(im, j)}

TableStart(im) == im.first[0]

(* find_global                                                             *)
Exported(im) ==
  {i \in Index(im) :
     im.sym[i].defined /\ im.sym[i].bind = "global" /\ im.sym[i].shown}

(* Mutant of Listed: the loops stop before the end.                        *)
ListedShort(l) ==
  LET im == image[l]
  IN  IF l \in flag THEN {Exported(im) \cap (TableStart(im) .. e - 1) : e \in TableEnds(im)}
      ELSE IF im.sysv THEN {Exported(im)}
      ELSE {{}}

(* What the loops may take for exported symbols.  Without a GNU table they *)
(* end at nchain(), which is one past the last symbol: there is anything,  *)
(* Len + 1.  Without DT_HASH nchain() is 0.                                *)
Listed(l) ==
  LET im == image[l]
  IN  IF l \in flag THEN {Exported(im) \cap (TableStart(im) .. e) : e \in TableEnds(im)}
      ELSE IF im.sysv THEN {Exported(im), Exported(im) \cup {Len(im.sym) + 1}}
      ELSE {{}}

(* The names of listed symbols; the one past the end has any.              *)
NamesOf(im, listed) == {im.sym[i].name : i \in listed \cap Index(im)}

ListExports(l) ==
  /\ pc = "idle"
  /\ caller' = "list"
  /\ name' = NoName
  /\ prefix' = Name
  /\ ver' = NoVersion
  /\ lib' = l
  /\ \E listed \in Listed(l) :
       exports' \in IF listed \subseteq Index(image[l])
                    THEN {NamesOf(image[l], listed)}
                    ELSE {NamesOf(image[l], listed) \cup {s} : s \in Name}
  /\ pc' = "found"
  /\ UNCHANGED <<process, flags, walk, list, versym, n, found>>

FindPrefix(l, p) ==
  /\ pc = "idle"
  /\ caller' = "prefix"
  /\ name' = NoName
  /\ prefix' = p
  /\ ver' = NoVersion
  /\ lib' = l
  /\ \E listed \in Listed(l) :
       LET of == {i \in listed : i \in Index(image[l]) => image[l].sym[i].name \in p}
       IN  \/ of = {} /\ found' = 0
           \/ found' \in {i \in of : \A j \in of : i <= j}
  /\ pc' = "found"
  /\ UNCHANGED <<process, flags, walk, list, versym, n, exports>>

-----------------------------------------------------------------------------
(* A relink of another thread, while this one does not hold g_dl_mutex.    *)
Holding == pc \in {"walk", "list", "search"} \/ caller = "group"

OtherRelink(l) ==
  /\ ~Holding
  /\ pc # "fault"
  /\ l \in newSoinfo
  /\ Unlinked(l)
  /\ UNCHANGED <<process, pc, walk, list, request, seen, n, result>>

Next ==
  \/ \E l \in Lib :
       \/ Relink(l) \/ BuildList(l) \/ ListExports(l) \/ OtherRelink(l)
       \/ \E s \in Name : Find(l, s)
       \/ \E p \in Prefix : FindPrefix(l, p)
  \/ VisitAgain \/ Visit \/ VisitSkips \/ WalkDone
  \/ \E s \in Name, v \in Version \cup {NoVersion} : Search(s, v)
  \/ EndRelink \/ NextEntry \/ NoneLeft
  \/ BloomHolds \/ BucketEmpty \/ BucketBegins
  \/ ChainHit \/ ChainNext \/ ChainEnds
  \/ SysvHit \/ SysvNext \/ SysvEnds
  \/ Return

Spec == Init /\ [][Next]_vars
(* The thread that relinks is run again and again while it has something   *)
(* to do; nothing is asked of the calls of other threads.                  *)
FairSpec == Spec /\ WF_vars(Holding /\ Next)

-----------------------------------------------------------------------------
(* Everything stays in its range: a walk along a chain ends inside the     *)
(* library's symbol table, and a library list has as many SysV entries as  *)
(* slow_path_count_ says.                                                  *)
TypeOK ==
  /\ process \in Process
  /\ flag \subseteq Lib /\ newSoinfo \subseteq Lib
  /\ pc \in {"idle", "walk", "list", "search", "next", "probe", "chain", "sysv",
             "found", "fault"}
  /\ root \in Lib \cup {NoLib}
  /\ toVisit \in Seq(Lib) /\ visited \subseteq Lib /\ group \in Seq(Lib)
  /\ entries \in Seq([lib : Lib, gnu : BOOLEAN])
  /\ slow = Cardinality(NeedsSysv(entries))
  /\ it \in 1 .. Len(entries) + 1
  /\ caller \in {"none", "name", "group", "prefix", "list"}
  /\ name \in Name \cup {NoName} /\ prefix \subseteq Name
  /\ ver \in Version \cup {NoVersion}
  /\ lib \in Lib /\ versym \in BOOLEAN
  /\ n \in 0 .. Len(Here.sym) /\ found \in 0 .. Len(Here.sym) + 1
  /\ exports \subseteq Name
  /\ pc = "chain" => n \in Hashed(Here)

(* The definitions of a name in a library, whatever its tables: with its   *)
(* versions, those of the version if one is asked for, or those that are   *)
(* not old ones; without them, any.                                        *)
Offers(l, s, v, versions) ==
  {i \in Index(image[l]) :
     /\ image[l].sym[i].name = s
     /\ GlobalAndDefined(image[l].sym[i])
     /\ VersionFits(image[l], i, v, versions)}

Right(versions) ==
  \/ found \in Offers(lib, name, NoVersion, versions)
  \/ found = 0 /\ Offers(lib, name, NoVersion, versions) = {}

(* find_export_symbol_by_name finds a definition that is not an old one if *)
(* the library has one, through either table, although gnu_lookup does not *)
(* look whether it is one, and whatever bloom filters and hashes collide.  *)
(* Only a 32-bit library that a relink has taken FLAG_NEW_SOINFO from, be  *)
(* it in the middle of the lookup, may give an old one.                    *)
LookupExact ==
  pc = "found" /\ caller = "name" =>
    Right(TRUE) \/ (~HasMinVersion(lib) /\ Right(FALSE))

(* What a library has for a relocation.  On the 32-bit ABIs one that has   *)
(* been relinked, which the root always has, has every version.            *)
Has(l) == Offers(l, name, ver, HasMinVersion(l))

(* A relocation gets the definition of the first library that has one: the *)
(* library itself under DT_SYMBOLIC, then the global ones, then the local  *)
(* group, those with a SysV table only in their place among the others.    *)
FirstOfGroup ==
  pc = "found" /\ caller = "group" =>
    \/ /\ found \in Has(lib)
       /\ entries[it - 1].lib = lib
       /\ \A i \in 1 .. it - 2 : Has(entries[i].lib) = {}
    \/ found = 0 /\ \A i \in DOMAIN entries : Has(entries[i].lib) = {}

Members == {group[i] : i \in DOMAIN group}

(* GetSoinfoLocalGroup: each library once, the root first; each of the     *)
(* others needed by an earlier one, and behind what the ones before that   *)
(* need; and nothing missing that the namespace can access.  Circles of    *)
(* libraries change none of it.  The group is empty exactly when the       *)
(* namespace cannot access the root without FLAG_NEW_SOINFO, which happens *)
(* on the 32-bit ABIs only.                                                *)
GroupInOrder ==
  pc = "list" =>
    LET NeededBy(i) == {j \in DOMAIN group : group[i] \in Needs(group[j])}
        Reason(i) == CHOOSE j \in NeededBy(i) : \A k \in NeededBy(i) : j <= k
    IN  /\ IF root \in near THEN group # <<>> /\ group[1] = root
                            ELSE ~process.lp64 /\ group = <<>>
        /\ \A i, j \in DOMAIN group : i # j => group[i] # group[j]
        /\ \A l \in Members : Needs(l) \cap near \subseteq Members
        /\ \A i \in 2 .. Len(group) : NeededBy(i) # {} /\ Reason(i) < i
        /\ \A i, j \in 2 .. Len(group) : i < j => Reason(i) <= Reason(j)

(* A lookup meets a null table only in a library without DT_HASH that a    *)
(* relink has taken FLAG_GNU_HASH from, never through the fast path.       *)
FaultsOnlyUnlinked ==
  pc = "fault" => image[lib].gnu /\ ~image[lib].sysv /\ lib \notin flag

(* The exported symbols of a library with a GNU table whose last bucket is *)
(* not empty: all of them and no others; and a prefix finds the first.     *)
ListingExact ==
  pc = "found" /\ lib \in flag /\ Here.first[Here.nbuckets - 1] # 0 =>
    /\ caller = "list" => exports = {Here.sym[i].name : i \in Exported(Here)}
    /\ caller = "prefix" =>
         LET of == {i \in Exported(Here) : Here.sym[i].name \in prefix}
         IN  IF of = {} THEN found = 0
             ELSE found \in of /\ \A i \in of : found <= i

(* A walk over libraries that need each other in circles ends.             *)
WalkEnds == pc = "walk" ~> pc # "walk"
=============================================================================
