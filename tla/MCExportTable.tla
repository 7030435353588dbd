--------------------------- MODULE MCExportTable ----------------------------
(* Every Android version from 5.0 to 15, every ABI, every set of           *)
(* categories; and a process with the linker and eight libraries.          *)
EXTENDS ExportTable, TLC

MCAPI == 21..35
MCABI == {"arm", "arm64", "x86", "x86_64"}
MCModes == SUBSET Categories
MCReaders == {N, U} \X {"arm64"} \X {{"NEW_SOINFO"}}

foo == <<1>>
foobar == <<1, 2>>
bar == <<2>>

Dyn(n, v) == [name |-> n, value |-> v]
Sym(n, t, z, v) == [name |-> n, type |-> t, size |-> z, value |-> v]
Sections(str, sym, table) == [strtab |-> str, symtab |-> sym, sym |-> table]
Stripped == Sections("none", "none", <<>>)
Full == Sections("in", "in", <<Sym(bar, "func", 0, 0), Sym(foo, "func", 1, 6)>>)

(* bar is an import of each library, foo is defined.                       *)
Lib(hash, words, jmprel, vaddr, defects) ==
  [defects |-> defects, first |-> IF vaddr = 0 THEN "phdr" ELSE "load",
   vaddr |-> vaddr, hash |-> hash, words |-> words,
   dynsym |-> <<Dyn(bar, 0), Dyn(foo, vaddr + 5)>>, hashed |-> 2,
   plt |-> <<[sym |-> 1, slot |-> vaddr + 7]>>, jmprel |-> jmprel,
   file |-> Stripped, xz |-> Stripped, debugdata |-> "none"]

MCLibrary ==
  1 :> [Lib({"gnu"}, 2, FALSE, 0, {}) EXCEPT !.file =
          Sections("in", "in",
            <<Sym(bar, "other", 0, 3), Sym(foobar, "func", 1, 4), Sym(foo, "object", 1, 6),
              Sym(<<3, 1>>, "func", 1, 8)>>)]
  @@ 2 :> [Lib({"gnu", "sysv"}, 2, TRUE, 0, {}) EXCEPT !.debugdata = "good", !.xz = Full]
  @@ 3 :> [Lib({"sysv"}, 1, TRUE, 2, {}) EXCEPT !.file = Full,
             !.plt = @ \o <<[sym |-> 1, slot |-> 8]>>]
  @@ 4 :> [Lib({"gnu"}, 1, FALSE, 0, {"shentsize", "shstrndx"}) EXCEPT !.file = Full]
  @@ 5 :> [Lib({"gnu"}, 4, TRUE, 2, {}) EXCEPT !.file = Sections("out", "in", <<>>)]
  @@ 6 :> [Lib({"gnu"}, 3, TRUE, 0, {"shnum"}) EXCEPT !.first = "none"]
  @@ 7 :> [Lib({"gnu"}, 2, TRUE, 0, {}) EXCEPT !.debugdata = "bad"]
  @@ 8 :> Lib({"gnu"}, 2, TRUE, 0, {})
  @@ 9 :> [Lib({"gnu"}, 2, TRUE, 0, {}) EXCEPT !.debugdata = "good",
             !.xz = [Full EXCEPT !.strtab = "out"], !.file = Sections("none", "in", <<>>)]

(* The lines of a library of that number, and one of its bss.              *)
Path(i) == <<"lib", <<"linker", "a", "b", "c", "d", "e", "f", "g", "h">>[i]>>
At(start, i, offset, prot) ==
  [start |-> start, end |-> start + 2, prot |-> prot, offset |-> offset,
   inode |-> i, path |-> IF i = 0 THEN <<>> ELSE Path(i), valid |-> TRUE]
Mapped(i) ==
  <<At(10 * i, i, 0, {"r"}), At(10 * i + 2, i, 2, {"r", "x"}),
    At(10 * i + 4, i, 4, {"r", "w"}), At(10 * i + 6, 0, 0, {"r", "w"})>>

(* The lines of one library are torn; one is of ARM under an emulator, and *)
(* one that is comes last.                                                 *)
Emulated(i) == [Mapped(i) EXCEPT ![2].prot = {"r"}]
MCLines ==
  <<At(10, 1, 0, {"r"}), At(12, 1, 2, {"r", "x"})>> \o Mapped(2) \o Mapped(3)
  \o Mapped(4) \o Mapped(5) \o Mapped(6)
  \o [Mapped(7) EXCEPT ![2].valid = FALSE] \o Emulated(8) \o Emulated(9)

MCCopyAt == {3, 7}

MCNamed == {<<"a">>, <<"b">>, <<"c">>, <<"d">>, <<"e">>, <<"f">>, <<"g">>, <<"lib", "h">>, <<"none">>}
MCLinker == <<"lib", "linker">>
MCAsked == {foo, bar}
Unit(n, t) == [name |-> n, type |-> t]
MCBatches ==
  {<<Unit(bar, "imported"), Unit(foo, "internal"), Unit(bar, "imported")>>,
   <<Unit(foo, "exported"), Unit(bar, "internal")>>}
MCNameLists == {<<foo>>, <<bar>>, <<<<3>>, foo>>, <<<<3>>>>}
=============================================================================
