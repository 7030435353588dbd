------------------------------ MODULE Layouts -------------------------------
(***************************************************************************)
(* The exported calls (g_fakelinker_export) on every supported Android     *)
(* version and ABI: the tables are filled and the symbols loaded once, and *)
(* each call then goes through them.  A call is one step; it either gets   *)
(* through, or ends the process, by a null function or symbol or by the    *)
(* abort of SymbolItem::Get.  Calls that reach nothing of the linker (the  *)
(* blacklist, the JNI helpers, the log) and find_library_symbol, which     *)
(* reads files and maps, are not here.                                     *)
(***************************************************************************)
EXTENDS LinkerAccess

CONSTANT
  Modes  (* the sets of categories init_fakelinker is asked for            *)

ASSUME ModesAssumption == Modes \subseteq SUBSET Categories

VARIABLES
  ready,       (* the tables have been filled                              *)
  categories,  (* the categories whose symbols were loaded                 *)
  call,        (* the call the process ended in                            *)
  lost,        (* the accesses of it that were null                        *)
  missing      (* the symbols it aborted at                                *)

vars == <<api, abi, flags, ready, categories, call, lost, missing>>

Init ==
  /\ api \in API
  /\ abi \in ABI
  /\ flags \in SUBSET {"NEW_SOINFO", "GNU_HASH"}
  /\ (LP64 => "NEW_SOINFO" \in flags)
  /\ ("GNU_HASH" \in flags => api >= M)
  /\ ready = FALSE
  /\ categories = {}
  /\ call = "none"
  /\ lost = {}
  /\ missing = {}

-----------------------------------------------------------------------------
Alive == lost = {} /\ missing = {}

Access(name, accesses) ==
  /\ lost' = {a \in accesses : ~(Served(a) /\ (a[1] = "sym" \/ ready'))}
  /\ missing' = {a[2] : a \in {x \in accesses :
                   x[1] = "sym" /\ Aborts(x[2], categories')}}
  /\ call' = IF lost' = {} /\ missing' = {} THEN "none" ELSE name

(* LoadSymbol finds ld-android.so by its name, and what the linker exports *)
(* in it.                                                                  *)
Exported == {"dlopen", "dlopenO", "dlsym", "dlsymO", "create_namespaceO"}
LoadSymbol(asked) ==
  When("DlopenDlSym" \in asked, FindSoinfoByName)
  \cup When(\E s \in Exported : InRange(s) /\ Category(s) \in asked,
            GetLinkerSoinfo \cup find_export_symbol_address)

init_fakelinker(asked) ==
  /\ ~ready
  /\ Alive
  /\ ready' = TRUE
  /\ categories' = asked
  /\ Access("init_fakelinker", LoadSymbol(asked))
  /\ UNCHANGED <<api, abi, flags>>

(* The process that ended starts again.                                    *)
Restart ==
  /\ ~Alive
  /\ ready' = FALSE
  /\ categories' = {}
  /\ call' = "none"
  /\ lost' = {}
  /\ missing' = {}
  /\ UNCHANGED <<api, abi, flags>>

Called(name, accesses) ==
  /\ ready
  /\ Alive
  /\ UNCHANGED <<api, abi, flags, ready, categories>>
  /\ Access(name, accesses)

(* CHECK_API: below the version the call returns an error at once.         *)
From(version, accesses) == When(api >= version, accesses)

-----------------------------------------------------------------------------
(***************************************************************************)
(* Calls about libraries.                                                  *)
(***************************************************************************)
soinfo_find ==
  \/ Called("soinfo_find", FindContainingLibrary)
  \/ Called("soinfo_find_handle", From(N, SoinfoFromHandle))
  \/ Called("soinfo_find", FindSoinfoByName)

soinfo_find_in_namespace ==
  \/ Called("soinfo_find", From(N, FindContainingLibrary))
  \/ Called("soinfo_find_handle", From(N, SoinfoFromHandle))
  \/ Called("soinfo_find", From(N, FindSoinfoByNameInNamespace))

soinfo_get_attribute ==
  Called("soinfo_get_attribute",
         get_soname \cup realpath \cup Gets({"base", "size", "flags_"})
         \cup When(api >= N, get_handle))

soinfo_print == Called("soinfo_to_string", soinfo_to_string)
soinfo_query_all == Called("soinfo_query_all", GetAllSoinfo)
soinfo_get_handle == Called("soinfo_get_handle", From(N, get_handle))
soinfo_get_name == Called("soinfo_get_name", get_soname)
soinfo_is_global == Called("soinfo_is_global", IsGlobalSoinfo)
soinfo_get_realpath == Called("soinfo_get_realpath", realpath)
soinfo_get_linker_soinfo == Called("get_linker_soinfo", GetLinkerSoinfo)
soinfo_get_import_symbol_address == Called("find_symbol", find_import_symbol_address)
soinfo_get_export_symbol_address == Called("find_symbol", find_export_symbol_address)
soinfo_get_export_symbol_address_prefix ==
  Called("find_symbol", find_export_symbol_by_prefix)

call_dlopen_inside == Called("call_dlopen_inside", CallDlopen)
dlsym_inside == Called("dlsym_inside", CallDlsym)
call_dlsym_inside ==
  Called("call_dlsym_inside", FindSymbolByDlsym \cup When(api >= N, SoinfoFromHandle))
get_linker_export_symbol ==
  Called("get_linker_soinfo", GetLinkerSoinfo \cup find_export_symbol_address)

soinfo_add_to_global == Called("soinfo_add_to_global", AddSoinfoToGlobal)
soinfo_remove_global == Called("soinfo_remove_global", RemoveGlobalSoinfo)

call_manual_relocation_by_soinfo == Called("relocation", ManualRelinkLibrary)
call_manual_relocation_by_soinfos == Called("relocation", ManualRelinkLibraries)
call_manual_relocation_by_name ==
  Called("relocation", FindSoinfoByName \cup ManualRelinkLibrary)
call_manual_relocation_by_names == Called("relocation", ManualRelinkLibraries)

Libraries ==
  \/ soinfo_find \/ soinfo_find_in_namespace \/ soinfo_get_attribute
  \/ soinfo_print \/ soinfo_query_all \/ soinfo_get_handle \/ soinfo_get_name
  \/ soinfo_is_global \/ soinfo_get_realpath \/ soinfo_get_linker_soinfo
  \/ soinfo_get_import_symbol_address \/ soinfo_get_export_symbol_address
  \/ soinfo_get_export_symbol_address_prefix \/ call_dlopen_inside
  \/ dlsym_inside \/ call_dlsym_inside \/ get_linker_export_symbol
  \/ soinfo_add_to_global \/ soinfo_remove_global
  \/ call_manual_relocation_by_soinfo \/ call_manual_relocation_by_soinfos
  \/ call_manual_relocation_by_name \/ call_manual_relocation_by_names

-----------------------------------------------------------------------------
(***************************************************************************)
(* Calls about namespaces, and the verbosity of the linker.                *)
(***************************************************************************)
android_namespace_find ==
  \/ Called("namespace_read", From(N, get_primary_namespace))
  \/ Called("namespace_read", From(N, FindNamespaceByName))
android_namespace_get_name == Called("namespace_read", From(N, get_name))
android_namespace_query_all == Called("namespace_read", From(N, GetAllNamespace))
android_namespace_create == Called("namespace_create", CallCreateNamespace)
android_namespace_get_all_soinfo == Called("namespace_read", From(N, soinfo_list))
android_namespace_get_caller_address ==
  Called("namespace_read", From(N, GetNamespaceCallerAddress))
(* Mutant of android_namespace_get_link_namespace: its check is N.         *)
android_namespace_get_link_namespaceN ==
  Called("namespace_read",
         From(N, IF api >= P THEN linked_namespaceP ELSE linked_namespacesO))
android_namespace_get_link_namespace ==
  Called("namespace_read",
         From(O, IF api >= P THEN linked_namespaceP ELSE linked_namespacesO))
android_namespace_get_global_soinfos ==
  Called("namespace_read", From(N, get_global_group))
android_namespace_get_white_list ==
  Called("namespace_read", From(Q, get_whitelisted_libs))

android_namespace_add_global_soinfo ==
  Called("namespace_write", From(N, AddGlobalSoinfoToNamespace))
android_namespace_add_soinfo == Called("namespace_write", From(N, add_soinfo))
android_namespace_remove_soinfo ==
  Called("namespace_write", From(N, RemoveSoinfoFromNamespace))
android_namespace_add_soinfo_whitelist ==
  Called("namespace_write", From(Q, add_whitelisted_lib))
android_namespace_remove_whitelist ==
  Called("namespace_write", From(Q, remove_whitelisted_lib))
android_namespace_add_ld_library_path ==
  Called("namespace_write", From(N, add_ld_library_path))
(* These return kErrorUnavailable before they do anything.                 *)
android_namespace_add_default_library_path == Called("namespace_write", {})
android_namespace_add_permitted_library_path == Called("namespace_write", {})
android_namespace_add_linked_namespace ==
  Called("namespace_write", From(O, add_linked_namespace))
soinfo_add_second_namespace ==
  Called("namespace_write", From(N, add_secondary_namespace))
soinfo_remove_second_namespace ==
  Called("namespace_write", From(N, remove_secondary_namespace))
soinfo_change_namespace == Called("namespace_write", From(N, ChangeSoinfoOfNamespace))

(* It checks both pointers it gets.                                        *)
set_ld_debug_verbosity ==
  Called("set_ld_debug_verbosity",
         {a \in Symbols({"g_ld_debug_verbosity", "g_linker_debug_config"}) :
            InRange(a[2])})

Namespaces ==
  \/ android_namespace_find \/ android_namespace_get_name
  \/ android_namespace_query_all \/ android_namespace_create
  \/ android_namespace_get_all_soinfo \/ android_namespace_get_caller_address
  \/ android_namespace_get_link_namespace
  \/ android_namespace_get_global_soinfos \/ android_namespace_get_white_list
  \/ android_namespace_add_global_soinfo \/ android_namespace_add_soinfo
  \/ android_namespace_remove_soinfo \/ android_namespace_add_soinfo_whitelist
  \/ android_namespace_remove_whitelist \/ android_namespace_add_ld_library_path
  \/ android_namespace_add_default_library_path
  \/ android_namespace_add_permitted_library_path
  \/ android_namespace_add_linked_namespace \/ soinfo_add_second_namespace
  \/ soinfo_remove_second_namespace \/ soinfo_change_namespace
  \/ set_ld_debug_verbosity

Next ==
  \/ \E asked \in Modes : init_fakelinker(asked)
  \/ Restart
  \/ Libraries
  \/ Namespaces

Spec == Init /\ [][Next]_vars

-----------------------------------------------------------------------------
(* No call goes through a function that was not set for the version, the   *)
(* ABI or the format of the library, or through a symbol of another        *)
(* version.  The one call that lacks CHECK_API is                          *)
(* android_namespace_create (linker_export.cpp:424), below N.              *)
EveryCallServed == lost # {} => call = "namespace_create" /\ api < N

(* The categories a call needs beside the base, of those asked for.        *)
Needs(name, asked) ==
  CASE name = "init_fakelinker" /\ "Namespace" \in asked -> {"DlopenDlSym"}
    [] name = "soinfo_find_handle" -> {"SoinfoHandler"}
    [] name \in {"get_linker_soinfo", "call_dlopen_inside", "dlsym_inside",
                 "relocation"} -> {"DlopenDlSym"}
    [] name = "soinfo_is_global" /\ api < M -> {"DlopenDlSym"}
    [] name = "call_dlsym_inside" -> {"DlopenDlSym", "SoinfoHandler"}
    [] name \in {"soinfo_add_to_global", "soinfo_remove_global"} ->
         {"SoinfoMemory"} \cup When(api < M, {"DlopenDlSym"})
    [] name = "namespace_write" -> {"SoinfoMemory"}
    [] name = "namespace_create" ->
         {"Namespace", "SoinfoMemory"} \cup When(api < O, {"DlopenDlSym"})
    [] name = "set_ld_debug_verbosity" -> {"Debug"}
    [] OTHER -> {}

(* A process that asks init_fakelinker for some categories can make every  *)
(* call that needs no other: none of its symbols is missing then, so that  *)
(* SymbolItem::Get does not abort.  From V on set_ld_debug_verbosity       *)
(* aborts whatever was loaded: g_ld_debug_verbosity, which the linker no   *)
(* longer has, is still in its versions (linker_symbol.h:113).             *)
CategoriesSuffice ==
  missing # {} => \/ ~(Needs(call, categories) \subseteq categories)
                  \/ call = "set_ld_debug_verbosity" /\ api >= V
=============================================================================
