---------------------------- MODULE LinkerAccess ----------------------------
(***************************************************************************)
(* What the functions of fake-linker access of the linker: for each one    *)
(* the accesses of all the paths the Android version, the ABI and the      *)
(* library's flags leave open.                                             *)
(***************************************************************************)
EXTENDS LinkerTables

When(condition, accesses) == IF condition THEN accesses ELSE {}

-----------------------------------------------------------------------------
(* A soinfo.                                                               *)
-----------------------------------------------------------------------------
get_soname == Gets({IF api >= M THEN "soname_" ELSE "name_"})
realpath == Gets({"realpath_"}) \cup When(api < M, get_soname)

Unversioned == LP64 /\ api >= M
has_min_version == When(~Unversioned, Gets({"flags_", "version_"}))
MinVersion(v) == Unversioned \/ ("NEW_SOINFO" \in flags /\ v <= Version)

get_versym_table ==
  has_min_version \cup When(MinVersion(2), Gets({"versym_"}))
get_string ==
  has_min_version \cup Gets({"strtab_"})
  \cup When(MinVersion(1) /\ api >= L_MR1, Gets({"strtab_size_"}) \cup realpath)

get_secondary_namespaces == Gets({IF api >= T THEN "secondary_namespaces_T"
                                              ELSE "secondary_namespaces_"})

get_rtld_flags == Gets({IF api >= M THEN "rtld_flags_" ELSE "rtld_flags_L"})
set_dt_flags_1 ==
  has_min_version
  \cup When(MinVersion(1), Gets({"dt_flags_1_", "rtld_flags_"})
                           \cup Sets({"dt_flags_1_", "rtld_flags_"}))

Constructors == Gets(IF api >= P THEN {"preinit_array_P", "init_array_P"}
                                 ELSE {"preinit_array_", "init_array_"})

is_gnu_hash == Gets({"flags_"})
GnuHash == "GNU_HASH" \in flags
resolve_symbol_address == Gets({"load_bias"})
elf_lookup ==
  get_versym_table \cup get_string
  \cup Gets({"bucket_", "nbucket_", "chain_", "symtab_"})
gnu_lookup ==
  IF api < M THEN elf_lookup
  ELSE get_versym_table \cup get_string
       \cup Gets({"gnu_maskwords_", "gnu_bloom_filter_", "gnu_shift2_",
                  "gnu_bucket_", "gnu_nbucket_", "gnu_chain_", "symtab_"})
find_export_symbol_by_name ==
  is_gnu_hash \cup IF GnuHash THEN gnu_lookup ELSE elf_lookup
find_export_symbol_address ==
  find_export_symbol_by_name \cup resolve_symbol_address

get_export_symbol_gnu_table_size ==
  is_gnu_hash \cup When(GnuHash /\ api >= M,
                        Gets({"gnu_bucket_", "gnu_nbucket_", "gnu_chain_"}))
AllSymbols ==
  is_gnu_hash \cup get_string \cup Gets({"symtab_"})
  \cup IF GnuHash THEN get_export_symbol_gnu_table_size ELSE Gets({"nchain_"})
find_export_symbol_by_prefix == AllSymbols \cup resolve_symbol_address
get_global_soinfo_export_symbols == AllSymbols \cup resolve_symbol_address

Tables == IF LP64 THEN {"plt_rela_", "plt_rela_count_", "rela_", "rela_count_"}
                  ELSE {"plt_rel_", "plt_rel_count_", "rel_", "rel_count_"}
find_import_symbol_index_by_name == Gets(Tables \cup {"symtab_"}) \cup get_string
find_import_symbol_address ==
  find_import_symbol_index_by_name \cup Gets({"load_bias"})
process_relocation == get_string \cup Gets({"symtab_", "load_bias"})
again_process_relocation == get_soname \cup Gets(Tables) \cup process_relocation

soinfo_to_string ==
  get_soname \cup Constructors
  \cup Gets({"phdr", "phnum", "base", "size", "dynamic", "flags_", "strtab_",
             "symtab_", "nbucket_", "nchain_", "bucket_", "chain_",
             "preinit_array_count_", "init_array_count_", "fini_array_",
             "fini_array_count_", "constructors_called", "load_bias",
             "has_DT_SYMBOLIC", "version_"})
  \cup When(~LP64, Gets({"plt_got_"}))
  \cup When(api >= N, Gets({"handle_"}))
  \cup When(api >= L_MR1, Gets({"file_offset_", "strtab_size_"}) \cup get_rtld_flags)
  \cup When(api >= M, Gets({"dt_flags_1_"}))

-----------------------------------------------------------------------------
(* A namespace.                                                            *)
-----------------------------------------------------------------------------
LinkerBlockLock ==
  Symbols(Allocators \cup When(api >= N, NamespaceAllocators))

get_name == When(api < R, Uses({"name_"}))
soinfo_list == Uses({IF api >= T THEN "soinfo_list_T" ELSE "soinfo_list_"})
find_soinfo == LinkerBlockLock \cup soinfo_list
add_soinfo == LinkerBlockLock \cup find_soinfo \cup soinfo_list
remove_soinfo == LinkerBlockLock \cup soinfo_list
get_global_group == soinfo_list \cup Gets({"dt_flags_1_"})
linked_namespaceP == Uses({"linked_namespaces_P"})
linked_namespacesO == Uses({"linked_namespaces_"})
add_linked_namespace ==
  LinkerBlockLock \cup IF api <= O_MR1 THEN linked_namespacesO ELSE linked_namespaceP
get_whitelisted_libs == Uses({"whitelisted_libs_"})
add_whitelisted_lib == LinkerBlockLock \cup get_whitelisted_libs
remove_whitelisted_lib == LinkerBlockLock \cup get_whitelisted_libs
add_ld_library_path == LinkerBlockLock \cup Uses({"ld_library_paths_"})

get_primary_namespace == Gets({"primary_namespace_"})
get_handle == Gets({"handle_"})
add_secondary_namespace == LinkerBlockLock \cup get_secondary_namespaces
remove_secondary_namespace == LinkerBlockLock \cup get_secondary_namespaces
remove_all_secondary_namespace == get_secondary_namespaces

-----------------------------------------------------------------------------
(* The process: ProxyLinker.                                               *)
-----------------------------------------------------------------------------
(* Mutant of Walk: it takes the linker's lock first.                       *)
WalkLocked == Symbols({"solist", "g_dl_mutex"}) \cup Gets({"next"})
Walk == Symbols({"solist"}) \cup Gets({"next"})

GetAllSoinfo == Walk
FindContainingLibrary == Walk \cup Gets({"base", "size"})
FindSoinfoByName == Walk \cup get_soname
FindSoinfoByNameInNamespace == soinfo_list \cup get_soname
SoinfoFromHandle == Symbols({"g_soinfo_handles_map"})
GetLinkerSoinfo == Symbols({"linker_soinfo"})
GetAllNamespace == Walk \cup get_primary_namespace
FindNamespaceByName == GetAllNamespace \cup get_name
GetNamespaceCallerAddress ==
  Walk \cup get_primary_namespace
  \cup Gets({"base", "size", "phnum", "phdr", "load_bias"})

IsGlobalSoinfo == IF api >= M THEN Gets({"dt_flags_1_"}) ELSE Symbols({"g_ld_preloads"})
AddSoinfoToGlobal ==
  LinkerBlockLock
  \cup (IF api >= M THEN set_dt_flags_1 \cup Gets({"dt_flags_1_"})
                    ELSE Symbols({"g_ld_preloads"}))
  \cup When(api >= N, GetAllNamespace \cup add_soinfo \cup add_secondary_namespace)
RemoveGlobalSoinfo ==
  LinkerBlockLock
  \cup (IF api >= M THEN set_dt_flags_1 \cup Gets({"dt_flags_1_"})
                    ELSE Symbols({"g_ld_preloads"}))
  \cup When(api >= N,
            GetAllNamespace \cup remove_soinfo \cup remove_secondary_namespace)
AddGlobalSoinfoToNamespace ==
  LinkerBlockLock \cup Gets({"dt_flags_1_"}) \cup set_dt_flags_1 \cup add_soinfo
  \cup add_secondary_namespace
RemoveSoinfoFromNamespace ==
  LinkerBlockLock \cup remove_soinfo \cup IsGlobalSoinfo
  \cup remove_all_secondary_namespace \cup set_dt_flags_1
  \cup remove_secondary_namespace
ChangeSoinfoOfNamespace ==
  LinkerBlockLock \cup get_primary_namespace \cup remove_soinfo
  \cup Sets({"primary_namespace_"}) \cup add_soinfo

Dlerror == Symbols({"g_dl_mutex", "linker_dl_err_buf"})
CallDoDlopenN == IF api >= O THEN Symbols({"dlopenO"})
                             ELSE Symbols({"dlopenN"}) \cup Dlerror
CallDoDlsymN == IF api >= O THEN Symbols({"dlsymO"})
                            ELSE Symbols({"dlsymN"}) \cup Dlerror
CallDoDlopen == Symbols({"dlopen"})
CallDlopen == IF api >= N THEN CallDoDlopenN ELSE CallDoDlopen
(* Below N the dlsym of libc, not the symbol.                              *)
CallDlsym == When(api >= N, CallDoDlsymN)
FindSymbolByDlsym ==
  When(api >= N, get_handle \cup Gets({"load_bias"}) \cup CallDoDlsymN)
CallCreateNamespace ==
  LinkerBlockLock \cup IF api >= O THEN Symbols({"create_namespaceO"})
                                   ELSE Symbols({"create_namespaceN"}) \cup Dlerror

ManualRelinkLibrary ==
  get_global_soinfo_export_symbols \cup get_soname
  \cup Symbols({"g_dl_mutex"}) \cup again_process_relocation
ManualRelinkLibraries == ManualRelinkLibrary \cup FindSoinfoByName
=============================================================================
