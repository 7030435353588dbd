----------------------------- MODULE ElfReader ------------------------------
(***************************************************************************)
(* ElfReader: the addresses of symbols of a loaded library, from the       *)
(* library in memory (imports, exports) or from its file (any symbol).  A  *)
(* call makes a reader, loads it, looks up and destroys it, so that a call *)
(* shares nothing with others but the mappings of the process: another     *)
(* thread's reader maps the whole file of a library for a while.           *)
(*                                                                         *)
(* A name is a sequence of letters (naturals).  A library is a record      *)
(*   defects   what is wrong with its headers; DT_SYMTAB is there, as the  *)
(*             linker has loaded the library with it                       *)
(*   first     its first program header of use: "phdr", "load" or "none"   *)
(*   vaddr     the lowest address of its segments                          *)
(*   hash      the hash tables it has, of {"gnu", "sysv"}                  *)
(*   words     the words of its Bloom filter                               *)
(*   dynsym    its dynamic symbols [name, value], value 0 if undefined     *)
(*   hashed    the first of them that the GNU table holds                  *)
(*   plt       its PLT relocations [sym, slot]; with jmprel, where they are*)
(*   file, xz  the sections of its file, and of what .gnu_debugdata holds: *)
(*             strtab and symtab, each "none", "in" or "out" of range, and *)
(*             sym, the symbols [name, type, size, value]                  *)
(*   debugdata .gnu_debugdata itself: "none", "good" or "bad"              *)
(***************************************************************************)
EXTENDS LinkerTables, Maps

CONSTANTS
  Lines,    (* the lines of /proc/self/maps                                *)
  CopyAt,   (* the lines below which there is room for a mapping           *)
  Library,  (* inode -> library                                            *)
  Linker,   (* the name of the linker's file                               *)
  Named,    (* the names libraries are asked for                           *)
  Asked,    (* the names of symbols                                        *)
  Batches,  (* the arrays of FindSymbolUnit [name, type]                   *)
  NameLists (* the names LoadSymbol looks for one symbol as                *)

Letters == Seq(Nat)

SymbolTypes == {"imported", "exported", "internal"}

Units == [name : Letters, type : SymbolTypes]

(* The symbols of a GNU table, which nothing leads to but their hashes,    *)
(* are defined.                                                            *)
IsLibrary(lib) ==
  /\ lib.first \in {"phdr", "load", "none"}
  /\ lib.vaddr \in Nat
  /\ lib.dynsym \in Seq([name : Letters, value : Nat])
  /\ \A i \in DOMAIN lib.dynsym : i >= lib.hashed => lib.dynsym[i].value > 0
  /\ lib.plt \in Seq([sym : Nat, slot : Nat])
  /\ \A sections \in {lib.file, lib.xz} :
       /\ {sections.strtab, sections.symtab} \subseteq {"none", "in", "out"}
       /\ sections.sym \in Seq([name : Letters, type : {"func", "object", "other"},
                                size : Nat, value : Nat])

ASSUME ElfReaderAssumption ==
  /\ Lines \in Seq([start : Nat, end : Nat, prot : SUBSET {"r", "w", "x"},
                    offset : Nat, inode : Nat, path : Seq(STRING),
                    valid : BOOLEAN])
  /\ CopyAt \subseteq {i \in DOMAIN Lines :
                       i > 1 => Lines[i].start > Lines[i - 1].end}
  /\ \A i \in DOMAIN Lines :
       Lines[i].inode # 0 => Lines[i].inode \in DOMAIN Library
  /\ \A inode \in DOMAIN Library : inode \in Nat /\ IsLibrary(Library[inode])
  /\ Asked \subseteq Letters
  /\ Batches \subseteq Seq(Units) \ {<<>>}
  /\ NameLists \subseteq Seq(Letters)

NoTable == [in |-> "none", whole |-> TRUE]

NoReader == [load |-> FALSE, disk |-> FALSE, diskLoad |-> FALSE, inode |-> 0,
             base |-> 0, bias |-> 0, strtab |-> NoTable, symtab |-> NoTable,
             cache |-> {}]

VARIABLES
  copy,      (* another thread's mapping of a file: [inode, at], below at  *)
  pc,        (* how far the call is                                        *)
  request,   (* its arguments [call, name, units], and a loop's index i    *)
  reader,    (* the fields of its ElfReader and ElfDiskInfo                *)
  mapped,    (* the memory ElfDiskInfo holds, of {"file", "xz"}            *)
  answers,   (* the addresses found: [name, type, address]                 *)
  hidden     (* history: a copy of the file lay before the library         *)

readerVars == <<copy, pc, request, reader, mapped, answers, hidden>>

NoCopy == [inode |-> 0, at |-> 0]
NoRequest == [call |-> "none", name |-> <<>>, units |-> <<>>, i |-> 0]

(* Whatever memory held that nobody has written.                           *)
Garbage == -1

Here == Library[reader.inode]

ReaderInit ==
  /\ copy = NoCopy
  /\ pc = "idle"
  /\ request = NoRequest
  /\ reader = NoReader
  /\ mapped = {}
  /\ answers = {}
  /\ hidden = FALSE

-----------------------------------------------------------------------------
(* The calls.                                                              *)

(* Where the units of a type are: imports, exports, internals.             *)
Typed(units, type) == {k \in DOMAIN units : units[k].type = type}

Begin(call, name, units, first) ==
  /\ pc = "idle"
  /\ request' = [call |-> call, name |-> name, units |-> units, i |-> 0]
  /\ pc' = first
  /\ UNCHANGED <<copy, reader, mapped, answers, hidden>>

(* Imports and exports are read from memory, internal symbols from disk.   *)
find_library_symbol(name, unit) ==
  Begin("symbol", name, <<unit>>,
        IF unit.type = "internal" THEN "disk" ELSE "memory")

(* Exports alone do not make it load the library (exports.empty(), without *)
(* a not).                                                                 *)
find_library_symbols(name, units) ==
  Begin("symbols", name, units,
        IF Typed(units, "imported") # {} \/ Typed(units, "exported") = {}
          THEN "memory"
        ELSE IF Typed(units, "internal") # {} THEN "disk" ELSE "find")

LoadLinker == Begin("load", Linker, <<>>, "disk")

-----------------------------------------------------------------------------
(* The mappings.  A call is alone with them but for the copy.              *)

(* mmap puts another thread's copy in the gap below a line.                *)
CopyLine ==
  LET above == Lines[copy.at]
      path == (CHOOSE line \in Range(Lines) : line.inode = copy.inode).path
  IN  [start |-> above.start - 1, end |-> above.start, prot |-> {"r"},
       offset |-> 0, inode |-> copy.inode, path |-> path, valid |-> TRUE]

CurrentLines ==
  IF copy = NoCopy THEN Lines ELSE InsertAt(Lines, copy.at, CopyLine)

(* The other thread's reader of the library maps its file, and unmaps it.  *)
OtherMaps ==
  /\ pc \in {"memory", "disk"}
  /\ copy = NoCopy
  /\ \E i \in DOMAIN Lines, at \in CopyAt :
       /\ Matches(Lines[i], request.name)
       /\ copy' = [inode |-> Lines[i].inode, at |-> at]
  /\ UNCHANGED <<pc, request, reader, mapped, answers, hidden>>

OtherUnmaps ==
  /\ copy # NoCopy
  /\ copy' = NoCopy
  /\ UNCHANGED <<pc, request, reader, mapped, answers, hidden>>

(* The copy hides the library if it comes before it with no line of        *)
(* another file between.                                                   *)
CopyHides(inode) ==
  /\ copy.inode = inode
  /\ \E i \in DOMAIN Lines :
       /\ i >= copy.at
       /\ Lines[i].inode = inode
       /\ \A j \in copy.at .. i : Lines[j].inode \in {0, inode}

-----------------------------------------------------------------------------
(* LoadFromMemory.                                                         *)

(* Mutant of ReadProgramHeadersFromMemory: the bias is the base.           *)
ReadProgramHeadersUnbiased(lib, pages, base) ==
  IF "phnum" \in lib.defects \/ ~CheckAddressPageProtect(pages, base, {"r"})
    THEN [ok |-> FALSE, bias |-> 0]
    ELSE [ok |-> lib.first # "none", bias |-> base]

(* load_bias_, and whether the headers will do.                            *)
ReadProgramHeadersFromMemory(lib, pages, base) ==
  IF "phnum" \in lib.defects \/ ~CheckAddressPageProtect(pages, base, {"r"})
    THEN [ok |-> FALSE, bias |-> 0]
  ELSE IF lib.first = "phdr" THEN [ok |-> lib.vaddr = 0, bias |-> base]
  ELSE [ok |-> lib.first = "load", bias |-> base - lib.vaddr]

powerof2(n) == \E k \in 0 .. n : n = 2 ^ k

(* DT_HASH or DT_GNU_HASH, and the tables they index, must be there; the   *)
(* relocations must be of the ABI's kind (pltrel) and size (relent).  The  *)
(* test for DT_SYMTAB reads symtab_, which only DT_SYMTAB itself sets, and *)
(* refuses none of these libraries.                                        *)
ReadDynamicSectionFromMemory(lib) ==
  /\ lib.defects \cap {"dynamic", "syment", "pltrel", "relent", "strtab"} = {}
  /\ lib.hash # {}
  /\ "gnu" \in lib.hash => powerof2(lib.words)

LoadFromMemory ==
  LET pages == GetLibraryProtect(CurrentLines, request.name)
      base == GetLibraryBaseAddress(pages)
      inode == Head(pages).inode
      headers == ReadProgramHeadersFromMemory(Library[inode], pages, base)
  IN  /\ pc = "memory"
      /\ IF pages = <<>>
           THEN UNCHANGED <<reader, hidden>>
           ELSE /\ reader' = [reader EXCEPT
                     !.inode = inode, !.base = base, !.bias = headers.bias,
                     !.load = /\ headers.ok
                              /\ ReadDynamicSectionFromMemory(Library[inode])]
                /\ hidden' = CopyHides(inode)
      /\ pc' = IF Typed(request.units, "internal") # {} THEN "disk" ELSE "find"
      /\ UNCHANGED <<copy, request, mapped, answers>>

-----------------------------------------------------------------------------
(* LoadFromDisk.                                                           *)

(* LoadSymbol gives up; the others look up in what they have.              *)
Failed == IF request.call = "load" THEN "done" ELSE "find"

(* The base is also load_bias_.  open fails, or not.                       *)
LoadFromDisk ==
  LET pages == GetLibraryProtect(CurrentLines, request.name)
      base == GetLibraryBaseAddress(pages)
      inode == Head(pages).inode
  IN  /\ pc = "disk"
      /\ IF pages = <<>>
           THEN pc' = Failed /\ UNCHANGED <<reader, hidden>>
           ELSE /\ reader' = [reader EXCEPT !.disk = TRUE, !.inode = inode,
                                            !.base = base, !.bias = base]
                /\ hidden' = CopyHides(inode)
                /\ pc' \in {"opened", Failed}
      /\ UNCHANGED <<copy, request, mapped, answers>>

(* Before Android O bad section headers are only warned of.                *)
VerifyElfHeader(lib) ==
  /\ lib.defects \cap {"magic", "class", "data", "type", "version", "machine"} = {}
  /\ api >= O => lib.defects \cap {"shentsize", "shstrndx"} = {}

ReadProgramHeaders(lib) == lib.defects \cap {"phnum", "phoff"} = {}
ReadSectionHeaders(lib) == lib.defects \cap {"shnum", "shoff"} = {}

ReadFormDisk ==
  /\ pc = "opened"
  /\ pc' = IF /\ VerifyElfHeader(Here)
              /\ ReadProgramHeaders(Here)
              /\ ReadSectionHeaders(Here)
             THEN "read" ELSE Failed
  /\ UNCHANGED <<copy, request, reader, mapped, answers, hidden>>

(* mmap fails, or not.                                                     *)
MapFile ==
  /\ pc = "read"
  /\ \/ mapped' = mapped \cup {"file"} /\ pc' = "mapped"
     \/ UNCHANGED mapped /\ pc' = Failed
  /\ UNCHANGED <<copy, request, reader, answers, hidden>>

(* The tables a file has, symtab before strtab.  An address is set before  *)
(* its range is checked, and the first one out of range ends the walk.     *)
(* Without the names of the sections only symtab is known, by its type.    *)
ParseSection(sections, in, names) ==
  [reader EXCEPT
     !.symtab = IF sections.symtab = "none" THEN @
                ELSE [in |-> in, whole |-> sections.symtab = "in"],
     !.strtab = IF ~names \/ sections.strtab = "none" \/ sections.symtab = "out"
                THEN @
                ELSE [in |-> in, whole |-> sections.strtab = "in"]]

InRangeOf(sections, names) ==
  sections.symtab # "out" /\ (names => sections.strtab # "out")

Incomplete(r) == "none" \in {r.strtab.in, r.symtab.in}

(* Mutant of ParseFile: a table out of range does not end the loading.     *)
ParseFileGoesOn ==
  LET names == ~("shstrndx" \in Here.defects)
      parsed == ParseSection(Here.file, "file", names)
  IN  /\ pc = "mapped"
      /\ reader' = parsed
      /\ pc' = IF Incomplete(parsed) /\ names /\ Here.debugdata # "none"
                 THEN "xz"
               ELSE "parsed"
      /\ UNCHANGED <<copy, request, mapped, answers, hidden>>

ParseFile ==
  LET names == ~("shstrndx" \in Here.defects)
      parsed == ParseSection(Here.file, "file", names)
  IN  /\ pc = "mapped"
      /\ reader' = parsed
      /\ pc' = IF ~InRangeOf(Here.file, names) THEN Failed
               ELSE IF Incomplete(parsed) /\ names /\ Here.debugdata # "none"
                 THEN "xz"
               ELSE "parsed"
      /\ UNCHANGED <<copy, request, mapped, answers, hidden>>

(* The file is unmapped once .gnu_debugdata has given its tables; if it    *)
(* cannot be read, or there is no memory, what the file gave remains.      *)
DecompressDebugData ==
  /\ pc = "xz"
  /\ \/ /\ Here.debugdata = "good"
        /\ reader' = ParseSection(Here.xz, "xz", TRUE)
        /\ mapped' = IF InRangeOf(Here.xz, TRUE) THEN {"xz"} ELSE {"file", "xz"}
     \/ UNCHANGED <<reader, mapped>>
  /\ pc' = "parsed"
  /\ UNCHANGED <<copy, request, answers, hidden>>

(* did_disk_load_.                                                         *)
LoadedFromDisk ==
  /\ pc = "parsed"
  /\ reader' = [reader EXCEPT !.diskLoad = ~Incomplete(reader)]
  /\ pc' = IF Incomplete(reader) THEN Failed
           ELSE IF request.call = "load" THEN "cache" ELSE "find"
  /\ UNCHANGED <<copy, request, mapped, answers, hidden>>

(* The symbols section_symtab_addr leads to.                               *)
DiskSymbols == IF reader.symtab.in = "xz" THEN Here.xz.sym ELSE Here.file.sym

(* The n-th of some indices, 0 if there are fewer.                         *)
Nth(set, n) ==
  IF Cardinality(set) < n THEN 0
  ELSE CHOOSE i \in set : Cardinality({j \in set : j <= i}) = n

Least(set) == Nth(set, 1)

(* emplace keeps the first symbol of a name.                               *)
CacheInternalSymbols ==
  LET kept(i) == DiskSymbols[i].type \in {"func", "object"} /\ DiskSymbols[i].size > 0
  IN  /\ pc = "cache"
      /\ reader' = [reader EXCEPT !.cache =
                      {i \in DOMAIN DiskSymbols :
                         /\ kept(i)
                         /\ \A j \in 1 .. i - 1 :
                              kept(j) => DiskSymbols[j].name # DiskSymbols[i].name}]
      /\ pc' = "process"
      /\ UNCHANGED <<copy, request, mapped, answers, hidden>>

-----------------------------------------------------------------------------
(* Lookups.  They give 0 if there is nothing to find.                      *)

(* The GNU table holds the symbols from hashed on, which are defined; the  *)
(* SysV table holds all.                                                   *)
GnuHashLookupSymbol(name) ==
  Least({i \in DOMAIN Here.dynsym :
           i >= Here.hashed /\ Here.dynsym[i].name = name})

ElfHashLookupSymbol(name) ==
  Least({i \in DOMAIN Here.dynsym : Here.dynsym[i].name = name})

(* Without a SysV table, an import is one of those the GNU table leaves    *)
(* out.                                                                    *)
Unhashed(name) == {i \in DOMAIN Here.dynsym :
                     i < Here.hashed /\ Here.dynsym[i].name = name}

(* The slots of the PLT that a symbol has.                                 *)
Slots(i) == {k \in DOMAIN Here.plt : Here.plt[k].sym = i}

(* Without DT_JMPREL the reader goes through plt_rel_ and plt_rel_count_,  *)
(* which nobody has set: it finds nothing, or anything, or faults.         *)
Slot(i, n) ==
  IF i = 0 THEN {0}
  ELSE IF ~Here.jmprel THEN {0, Garbage}
  ELSE IF Nth(Slots(i), n) = 0 THEN {0}
  ELSE {reader.bias + Here.plt[Nth(Slots(i), n)].slot}

FindImportSymbol(name) ==
  IF ~reader.load THEN {0}
  ELSE Slot(IF "sysv" \in Here.hash THEN ElfHashLookupSymbol(name)
            ELSE Least(Unhashed(name)), 1)

(* Each time a name is asked for again it takes the next slot, or the next *)
(* symbol of that name: mostly none.  A Bloom filter of one word (gnu_     *)
(* maskwords_ is one less) is taken for no hash table.                     *)
FindImportSymbols(names) ==
  LET times(k) == Cardinality({j \in DOMAIN names :
                                 j <= k /\ names[j] = names[k]}) IN
  [k \in DOMAIN names |->
     IF ~reader.load THEN {0}
     ELSE IF "sysv" \in Here.hash THEN Slot(ElfHashLookupSymbol(names[k]), times(k))
     ELSE IF Here.words # 1 THEN Slot(Nth(Unhashed(names[k]), times(k)), 1)
     ELSE {0}]

FindExportSymbol(name) ==
  LET i == IF "gnu" \in Here.hash THEN GnuHashLookupSymbol(name)
                                  ELSE ElfHashLookupSymbol(name)
  IN  IF ~reader.load \/ i = 0 THEN 0 ELSE reader.bias + Here.dynsym[i].value

FindExportSymbols(names) ==
  [k \in DOMAIN names |-> FindExportSymbol(names[k])]

(* A symbol of the file, of the cache if there is one.                     *)
FromDisk(i) == IF i = 0 THEN 0 ELSE reader.bias + DiskSymbols[i].value

IterateInternalSymbols(names) ==
  Least({i \in DOMAIN DiskSymbols : DiskSymbols[i].name \in names})

(* The names that begin so.                                                *)
Begun(prefix) ==
  {s \in {DiskSymbols[i].name : i \in DOMAIN DiskSymbols} : IsPrefix(prefix, s)}

FindInternalSymbol(name) ==
  IF ~reader.diskLoad THEN 0
  ELSE IF reader.cache = {}
    THEN FromDisk(IterateInternalSymbols({name}))
  ELSE FromDisk(Least({i \in reader.cache : DiskSymbols[i].name = name}))

(* The order of the names in the cache.                                    *)
Before(s, t) ==
  \/ IsStrictPrefix(s, t)
  \/ \E n \in DOMAIN s \cap DOMAIN t :
       /\ s[n] < t[n]
       /\ \A m \in 1 .. n - 1 : s[m] = t[m]

(* lower_bound: the name itself comes before those it begins.              *)
LowerBound(prefix) ==
  LET begun == {i \in reader.cache : DiskSymbols[i].name \in Begun(prefix)} IN
  Least({i \in begun : \A j \in begun :
           ~Before(DiskSymbols[j].name, DiskSymbols[i].name)})

(* Mutant of FindInternalSymbolByPrefix: the cache is gone through in the  *)
(* order of the table.                                                     *)
FindInternalSymbolByAnyPrefix(prefix) ==
  IF ~reader.diskLoad THEN 0
  ELSE FromDisk(Least({i \in DOMAIN DiskSymbols :
                         /\ reader.cache # {} => i \in reader.cache
                         /\ DiskSymbols[i].name \in Begun(prefix)}))

FindInternalSymbolByPrefix(prefix) ==
  IF ~reader.diskLoad THEN 0
  ELSE IF reader.cache = {}
    THEN FromDisk(IterateInternalSymbols(Begun(prefix)))
  ELSE FromDisk(LowerBound(prefix))

-----------------------------------------------------------------------------
(* What the calls make of them.                                            *)

Answer(name, type, address) == [name |-> name, type |-> type, address |-> address]

(* find_library_symbol's return.                                           *)
LookUp ==
  LET unit == request.units[1] IN
  /\ pc = "find"
  /\ request.call = "symbol"
  /\ \E address \in CASE unit.type = "imported" -> FindImportSymbol(unit.name)
                     [] unit.type = "exported" -> {FindExportSymbol(unit.name)}
                     [] unit.type = "internal" -> {FindInternalSymbol(unit.name)} :
       answers' = {Answer(unit.name, unit.type, address)}
  /\ pc' \in {"done"} \cup IF \E x \in answers' : x.address = Garbage THEN {"fault"}
                            ELSE {}
  /\ UNCHANGED <<copy, request, reader, mapped, hidden>>

(* find_library_symbols: what is asked for from disk is looked up as an    *)
(* import too.                                                             *)
LookUpAll ==
  LET names(type) == [k \in Typed(request.units, type) |->
                        request.units[k].name]
      found(type) == FindImportSymbols(names(type))
      given(type, f) == {Answer(names(type)[k], type, f[k]) :
                           k \in DOMAIN names(type)}
      any == {0, Garbage} \cup UNION (Range(found("imported")))
      wild == \E k \in DOMAIN found("internal") : Garbage \in found("internal")[k]
  IN  /\ pc = "find"
      /\ request.call = "symbols"
      /\ \E f \in [DOMAIN names("imported") -> any] :
           /\ \A k \in DOMAIN f : f[k] \in found("imported")[k]
           /\ answers' = given("imported", f)
                \cup given("exported", FindExportSymbols(names("exported")))
           /\ request' = [request EXCEPT !.i = Len(request.units) - 1]
           /\ pc' \in {"result"} \cup IF wild \/ Garbage \in Range(f)
                                     THEN {"fault"} ELSE {}
      /\ UNCHANGED <<copy, reader, mapped, hidden>>

(* find_library_symbols' last loop puts the answers in the order of the    *)
(* units; it goes up from the last unit until the index is below 0.  What  *)
(* lies past the array is none of the caller's: reading it, or taking more *)
(* answers than there are, ends in a fault.                                *)
Result ==
  /\ pc = "result"
  /\ request' = [request EXCEPT !.i = @ + 1]
  /\ pc' = IF request.i < 0 THEN "done"
           ELSE IF request.i < Len(request.units) THEN "result" ELSE "fault"
  /\ UNCHANGED <<copy, reader, mapped, answers, hidden>>

(* LoadSymbol's SymbolFinder for a symbol of the linker's file: with       *)
(* find_prefix it looks for the exact name, without it for the prefix.     *)
SymbolFinder(name, find_prefix) ==
  IF find_prefix THEN FindInternalSymbol(name)
                 ELSE FindInternalSymbolByPrefix(name)

AddressOf(name) ==
  IF SymbolFinder(name, FALSE) # 0 \/ api < U THEN SymbolFinder(name, FALSE)
                                             ELSE SymbolFinder(name, TRUE)

(* One PROCESS_SYMBOL: the first of its names that is found.               *)
ProcessSymbol(names, required) ==
  LET k == Least({n \in DOMAIN names : AddressOf(names[n]) # 0}) IN
  /\ pc = "process"
  /\ answers' = IF k = 0 THEN {}
                ELSE {Answer(names[k], "linker", AddressOf(names[k]))}
  /\ pc' = IF k = 0 /\ required THEN "done" ELSE "process"
  /\ UNCHANGED <<copy, request, reader, mapped, hidden>>

LoadSymbolDone ==
  /\ pc = "process"
  /\ pc' = "done"
  /\ UNCHANGED <<copy, request, reader, mapped, answers, hidden>>

(* The reader is destroyed, or the process has ended and begins again.     *)
Destroy ==
  /\ pc \in {"done", "fault"}
  /\ pc' = "idle"
  /\ request' = NoRequest
  /\ reader' = NoReader
  /\ mapped' = {}
  /\ answers' = {}
  /\ hidden' = FALSE
  /\ UNCHANGED copy

ReaderNext ==
  \/ \E name \in Named, unit \in [name : Asked, type : SymbolTypes] :
       find_library_symbol(name, unit)
  \/ \E name \in Named, units \in Batches : find_library_symbols(name, units)
  \/ LoadLinker
  \/ OtherMaps \/ OtherUnmaps
  \/ LoadFromMemory
  \/ LoadFromDisk \/ ReadFormDisk \/ MapFile
  \/ ParseFile \/ DecompressDebugData \/ LoadedFromDisk
  \/ CacheInternalSymbols
  \/ LookUp \/ LookUpAll \/ Result
  \/ \E names \in NameLists, required \in BOOLEAN : ProcessSymbol(names, required)
  \/ LoadSymbolDone
  \/ Destroy

-----------------------------------------------------------------------------
Table == [in : {"none", "file", "xz"}, whole : BOOLEAN]

ReaderTypeOK ==
  /\ copy \in [inode : Nat, at : Nat]
  /\ pc \in {"idle", "memory", "disk", "opened", "read", "mapped", "xz",
             "parsed", "cache", "find", "process", "result", "done", "fault"}
  /\ request \in [call : {"none", "symbol", "symbols", "load"},
                  name : Named \cup {Linker, <<>>}, units : Seq(Units), i : Nat]
  /\ reader \in [load : BOOLEAN, disk : BOOLEAN, diskLoad : BOOLEAN,
                 inode : Nat, base : Int, bias : Int,
                 strtab : Table, symtab : Table, cache : SUBSET Nat]
  /\ mapped \subseteq {"file", "xz"}
  /\ answers \subseteq [name : Letters, type : SymbolTypes \cup {"linker"},
                        address : Int]
  /\ hidden \in BOOLEAN

(* BaseIsLibrary: the base is that of a library the linker has loaded, the *)
(* start of a run of lines of its file of which one is executable or       *)
(* writable, and not that of a file somebody maps to read it; except when  *)
(* a copy lies before the library and no other file between.               *)
BaseIsLibrary ==
  reader.base # 0 /\ ~hidden =>
    \E i \in DOMAIN Lines :
       /\ Lines[i].start = reader.base
       /\ Lines[i].inode = reader.inode
       /\ MatchPath(Lines[i], request.name)
       /\ \E j \in i .. Len(Lines) :
            /\ {"x", "w"} \cap Lines[j].prot # {}
            /\ \A k \in i .. j : Lines[k].inode \in {0, reader.inode}

(* AddressIsSymbol: an address that is not 0 is where the loaded library   *)
(* has the symbol, or the slot its PLT calls the symbol through.  A symbol *)
(* that is not defined is not told from one at the load bias where the     *)
(* tables hold undefined ones, and a reader that also loads from disk      *)
(* takes the base for the bias.                                            *)
DefinedAt(a, symbols, address) ==
  \E i \in DOMAIN symbols :
     symbols[i].name = a.name /\ a.address = address + symbols[i].value

Right(a) ==
  LET bias == reader.base - Here.vaddr IN
  CASE a.type = "imported" ->
         \E k \in DOMAIN Here.plt :
            /\ Here.dynsym[Here.plt[k].sym].name = a.name
            /\ a.address = bias + Here.plt[k].slot
    [] a.type = "exported" ->
         /\ DefinedAt(a, Here.dynsym, bias)
         /\ "gnu" \in Here.hash => a.address # bias
    [] a.type = "internal" -> DefinedAt(a, DiskSymbols, bias)
    [] a.type = "linker" -> TRUE

AddressIsSymbol ==
  \A a \in answers :
     a.address = 0 \/ a.address = Garbage \/ hidden
       \/ (reader.disk /\ Here.vaddr # 0) \/ Right(a)

(* TablesAlive: the tables a reader has found in a file are in memory it   *)
(* holds and within their file, unless .gnu_debugdata holds but one of     *)
(* them or is damaged itself.                                              *)
TablesAlive ==
  reader.diskLoad /\ {Here.xz.strtab, Here.xz.symtab} \in {{"none"}, {"in"}} =>
    \A t \in {reader.strtab, reader.symtab} : t.in \in mapped /\ t.whole

(* ExactFirst: a name of LoadSymbol's is given the address of a symbol of  *)
(* that name if the cache holds one; every version also takes a longer     *)
(* name for it otherwise.                                                  *)
ExactFirst ==
  \A a \in answers :
     a.type = "linker" =>
       \E i \in DOMAIN DiskSymbols :
          /\ a.address = reader.bias + DiskSymbols[i].value
          /\ IsPrefix(a.name, DiskSymbols[i].name)
          /\ \/ DiskSymbols[i].name = a.name
             \/ \A j \in reader.cache : DiskSymbols[j].name # a.name

=============================================================================
