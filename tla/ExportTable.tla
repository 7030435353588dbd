---------------------------- MODULE ExportTable -----------------------------
(***************************************************************************)
(* g_fakelinker_export as a whole: the calls that reach the linker         *)
(* (Layouts), and those that read the maps and the files of libraries      *)
(* (ElfReader).  The two share the Android version and the ABI, and a      *)
(* process that ends in the one is gone for the other.                     *)
(***************************************************************************)
EXTENDS Layouts, ElfReader

CONSTANT
  Readers  (* the devices <<api, abi, flags>> on which libraries are read  *)

exportVars == <<vars, readerVars>>

ExportInit == Init /\ ReaderInit

LinkerCall ==
  /\ pc = "idle"
  /\ copy = NoCopy
  /\ Next
  /\ UNCHANGED readerVars

(* A reader reads nothing that init_fakelinker or a call changes: it is    *)
(* enough to read before init_fakelinker.                                  *)
ReaderStep ==
  /\ <<api, abi, flags>> \in Readers
  /\ ~ready
  /\ Alive
  /\ ReaderNext
  /\ UNCHANGED vars

ExportNext == LinkerCall \/ ReaderStep

ExportSpec == ExportInit /\ [][ExportNext]_exportVars
=============================================================================
