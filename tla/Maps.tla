-------------------------------- MODULE Maps --------------------------------
(***************************************************************************)
(* MapsHelper: where a library lies, from the lines of /proc/self/maps.    *)
(* A line is [start, end, prot, offset, inode, path, valid]: prot is the   *)
(* set of its permissions, path the parts of its path, and valid is FALSE  *)
(* if the line was torn by a change of the mappings while it was read.     *)
(* Addresses count pages.                                                  *)
(***************************************************************************)
EXTENDS Naturals, SequencesExt

(* MakeLibraryName puts a / before a name: it matches whole parts of the   *)
(* path, at its end.                                                       *)
MatchPath(line, name) == IsSuffix(name, line.path)

(* The pages of a library must hold one that it runs or writes: libraries  *)
(* of ARM under an emulator have none that is executable (Line forgets     *)
(* those all the same, unless no other file follows them).                 *)
VerifyLibraryMap(pages) ==
  \E i \in DOMAIN pages : pages[i].prot \cap {"x", "w"} # {}

Unstarted == [started |-> FALSE, inode |-> 0, prot |-> {}, pages |-> <<>>,
              ended |-> FALSE]

(* What a line does once the first line of a file has been met: another    *)
(* file ends the library, or what was found was only a mapping to read the *)
(* file and is forgotten.                                                  *)
OtherFile(scan, line) ==
  /\ scan.started
  /\ line.inode \notin {0, scan.inode}

Matches(line, name) ==
  line.valid /\ MatchPath(line, name) /\ line.inode # 0 /\ line.offset = 0

(* Mutant of Line: the pages of what is no library are kept.               *)
LineKeeping(name, scan, line) ==
  IF scan.ended \/ (~scan.started /\ ~Matches(line, name)) THEN scan
  ELSE IF ~line.valid
    THEN IF VerifyLibraryMap(scan.pages) THEN [scan EXCEPT !.ended = TRUE]
                                         ELSE Unstarted
  ELSE IF OtherFile(scan, line)
    THEN IF {"r", "x"} \subseteq scan.prot THEN [scan EXCEPT !.ended = TRUE]
         ELSE [Unstarted EXCEPT !.pages = scan.pages]
  ELSE IF line.inode = 0 THEN scan
  ELSE [scan EXCEPT !.started = TRUE, !.inode = line.inode,
                    !.prot = @ \cup line.prot, !.pages = Append(@, line)]

(* ReadLibraryMap's loop over the lines; GetLibraryProtect goes on behind  *)
(* a torn line if the pages before it are none of a library.               *)
Line(name, scan, line) ==
  IF scan.ended \/ (~scan.started /\ ~Matches(line, name)) THEN scan
  ELSE IF ~line.valid
    THEN IF VerifyLibraryMap(scan.pages) THEN [scan EXCEPT !.ended = TRUE]
                                         ELSE Unstarted
  ELSE IF OtherFile(scan, line)
    THEN IF {"r", "x"} \subseteq scan.prot THEN [scan EXCEPT !.ended = TRUE]
                                           ELSE Unstarted
  ELSE IF line.inode = 0 THEN scan
  ELSE [scan EXCEPT !.started = TRUE, !.inode = line.inode,
                    !.prot = @ \cup line.prot, !.pages = Append(@, line)]

ReadLibraryMap(lines, name) ==
  LET scan[n \in 0 .. Len(lines)] ==
        IF n = 0 THEN Unstarted ELSE Line(name, scan[n - 1], lines[n])
  IN  scan[Len(lines)]

(* The pages of the library, none if it is not found.                      *)
GetLibraryProtect(lines, name) ==
  LET pages == ReadLibraryMap(lines, name).pages IN
  IF VerifyLibraryMap(pages) THEN pages ELSE <<>>

(* The page of the least offset, the first of those that share it.         *)
GetLibraryBaseAddress(pages) ==
  pages[CHOOSE i \in DOMAIN pages :
          \A j \in DOMAIN pages :
             \/ pages[i].offset < pages[j].offset
             \/ pages[i].offset = pages[j].offset /\ i <= j].start

(* Whether a piece of the page at the address may be accessed so.          *)
CheckAddressPageProtect(pages, address, prot) ==
  \E i \in DOMAIN pages :
     /\ pages[i].start <= address
     /\ address < pages[i].end
     /\ prot \subseteq pages[i].prot
=============================================================================
