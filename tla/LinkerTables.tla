---------------------------- MODULE LinkerTables ----------------------------
(***************************************************************************)
(* The tables through which fake-linker reaches the linker's objects: one  *)
(* function per member of soinfo (funTable), one per member of             *)
(* android_namespace_t (npTable), and the symbols of the linker            *)
(* (LinkerSymbol).  What they hold depends on the Android version and the  *)
(* ABI.  A function that was not set is null, and so is a symbol outside   *)
(* its versions; a call of either ends in a fault.                         *)
(***************************************************************************)
EXTENDS Naturals

CONSTANTS
  API,  (* the Android versions                                            *)
  ABI   (* the builds, of {"arm", "arm64", "x86", "x86_64"}                *)

ASSUME TablesAssumption ==
  /\ API \subseteq 21..35
  /\ ABI \subseteq {"arm", "arm64", "x86", "x86_64"}

L == 21
L_MR1 == 22
M == 23
N == 24
N_MR1 == 25
O == 26
O_MR1 == 27
P == 28
Q == 29
R == 30
S == 31
T == 33
U == 34
V == 35

VARIABLES
  api,    (* android_api                                                   *)
  abi,    (* the build: __LP64__, USE_RELA, __work_around_b_24465209__     *)
  flags   (* the bits of flags_ that a library of the process has          *)

LP64 == abi \in {"arm64", "x86_64"}

(* An access: reading or writing a member of a soinfo, using a member of a *)
(* namespace, using a symbol.                                              *)
Gets(members) == {"get"} \X members
Sets(members) == {"set"} \X members
Uses(members) == {"np"} \X members
Symbols(names) == {"sym"} \X names

-----------------------------------------------------------------------------
(***************************************************************************)
(* soinfo::Init.  Each layout is stated by what it has beyond an older     *)
(* one.                                                                    *)
(***************************************************************************)

Relocations ==
  IF LP64 THEN {"plt_rela_", "plt_rela_count_", "rela_", "rela_count_"}
          ELSE {"plt_rel_", "plt_rel_count_", "rel_", "rel_count_",
                "plt_got_", "has_text_relocations"}

Name == IF LP64 THEN {} ELSE {"name_"}

InitApiL ==
  {"name_", "phdr", "phnum", "base", "size", "dynamic", "next", "flags_",
   "strtab_", "symtab_", "nbucket_", "nchain_", "bucket_", "chain_",
   "preinit_array_", "preinit_array_count_", "init_array_",
   "init_array_count_", "fini_array_", "fini_array_count_", "init_func_",
   "fini_func_", "ref_count_", "link_map_head", "constructors_called",
   "load_bias", "has_DT_SYMBOLIC", "version_", "st_dev_", "st_ino_",
   "children_", "parents_", "realpath_"}
  \cup Relocations
  \cup (IF abi = "arm" THEN {"ARM_exidx", "ARM_exidx_count"} ELSE {})

InitApiL1 == InitApiL \cup {"file_offset_", "rtld_flags_L", "strtab_size_"}

InitApiM ==
  (InitApiL1 \ {"name_", "rtld_flags_L"}) \cup Name \cup
  {"rtld_flags_", "dt_flags_1_", "gnu_nbucket_", "gnu_bucket_", "gnu_chain_",
   "gnu_maskwords_", "gnu_shift2_", "gnu_bloom_filter_", "local_group_root_",
   "android_relocs_", "android_relocs_size_", "soname_", "versym_",
   "verdef_ptr_", "verdef_cnt_", "verneed_ptr_", "verneed_cnt_",
   "target_sdk_version_"}

InitApiN ==
  InitApiM \cup
  {"dt_runpath_", "primary_namespace_", "secondary_namespaces_", "handle_"}

InitApiN1 == InitApiN

InitApiO == InitApiN1

Arrays == {"preinit_array_", "init_array_", "init_func_"}

InitApiP ==
  (InitApiO \ Arrays) \cup
  {"preinit_array_P", "init_array_P", "init_func_P", "relr_", "relr_count_"}

InitApiQ == InitApiP \cup {"tls_", "tlsdesc_args_"}

InitApiS == InitApiQ \cup {"gap_start_", "gap_size_"}

InitApiT ==
  (InitApiS \ {"children_", "parents_", "secondary_namespaces_"}) \cup
  {"children_T", "parents_T", "secondary_namespaces_T"}

InitApiU == InitApiT

InitApiV == InitApiU

(* soinfo::Init's choice.  R has the layout of Q.                          *)
Getters ==
  CASE api >= V -> InitApiV
    [] api = U -> InitApiU
    [] api = T -> InitApiT
    [] api \in S..(T - 1) -> InitApiS
    [] api \in Q..R -> InitApiQ
    [] api = P -> InitApiP
    [] api \in O..O_MR1 -> InitApiO
    [] api = N_MR1 -> InitApiN1
    [] api = N -> InitApiN
    [] api = M -> InitApiM
    [] api = L_MR1 -> InitApiL1
    [] OTHER -> InitApiL

(* Members with a function that reads them only: references, constant      *)
(* arrays, and below M realpath_, which is get_soname there.               *)
ReadOnly ==
  {"name_", "link_map_head", "children_", "children_T", "parents_",
   "parents_T", "secondary_namespaces_", "secondary_namespaces_T",
   "dt_runpath_", "tls_", "tlsdesc_args_"}
  \cup (IF api < M THEN {"realpath_"} ELSE {})

Setters == Getters \ ReadOnly

(* version_ of the version's libraries: the last "version >=" of its layout. *)
Version ==
  CASE api >= U -> 7
    [] api \in S..T -> 6
    [] api \in Q..R -> 5
    [] api = P -> 4
    [] api \in N..O_MR1 -> 3
    [] api = M -> 2
    [] api = L_MR1 -> 1
    [] OTHER -> 0

-----------------------------------------------------------------------------
(* android_namespace_t::Init; get_name has a function of its own from R.   *)
Paths == {"ld_library_paths_", "default_library_paths_", "permitted_paths_"}
NamespaceMembers ==
  IF api < N THEN {}
  ELSE Paths \cup {"is_isolated_"}
       \cup (IF api >= T THEN {"soinfo_list_T"} ELSE {"soinfo_list_"})
       \cup (IF api >= O THEN {"is_greylist_enabled_"} ELSE {})
       \cup (IF api >= P THEN {"linked_namespaces_P"} ELSE {})
       \cup (IF api \in O..O_MR1 THEN {"linked_namespaces_"} ELSE {})
       \cup (IF api >= Q THEN {"whitelisted_libs_"} ELSE {})
       \cup (IF api >= R THEN {"is_also_used_as_anonymous_"} ELSE {"name_"})
       \cup (IF api \in R..(T - 1) THEN {"setName"} ELSE {})

-----------------------------------------------------------------------------
(***************************************************************************)
(* LinkerSymbol: the versions from min_api to below max_api, and the       *)
(* category.  solist has none: kLinkerBase is 0, always asked for.         *)
(***************************************************************************)
Allocators == {"g_soinfo_allocator", "g_soinfo_links_allocator"}
NamespaceAllocators == {"g_namespace_allocator", "g_namespace_list_allocator"}

InRange(symbol) ==
  CASE symbol \in {"g_default_namespace", "g_soinfo_handles_map"}
                  \cup NamespaceAllocators -> api >= N
    [] symbol \in {"dlopenN", "dlsymN", "create_namespaceN"} -> api \in N..N_MR1
    [] symbol \in {"dlopenO", "dlsymO", "create_namespaceO"} -> api >= O
    [] symbol \in {"dlopen", "dlsym"} -> api < N
    [] symbol = "g_ld_preloads" -> api < M
    [] symbol \in {"g_ld_debug_verbosity", "g_linker_debug_config"} -> api >= U
    [] OTHER -> TRUE

Categories == {"Debug", "DlopenDlSym", "Namespace", "SoinfoHandler", "SoinfoMemory"}

Category(symbol) ==
  CASE symbol \in {"g_ld_debug_verbosity", "g_linker_debug_config"} -> "Debug"
    [] symbol \in {"create_namespaceN", "create_namespaceO"} -> "Namespace"
    [] symbol = "g_soinfo_handles_map" -> "SoinfoHandler"
    [] symbol \in Allocators \cup NamespaceAllocators -> "SoinfoMemory"
    [] OTHER -> "DlopenDlSym"

(* The symbols ANDROID_LE_U says the linker of a later version lacks.      *)
OnDevice(symbol) == symbol = "g_ld_debug_verbosity" => api <= U

(* SymbolItem::Get after the symbols of these categories were loaded: null *)
(* outside the versions, else it aborts if there is no pointer.            *)
Aborts(symbol, categories) ==
  /\ symbol # "solist"
  /\ InRange(symbol)
  /\ ~(OnDevice(symbol) /\ Category(symbol) \in categories)

(* What the access calls is not null, once the tables have been filled.    *)
Served(access) ==
  CASE access[1] = "get" -> access[2] \in Getters
    [] access[1] = "set" -> access[2] \in Setters
    [] access[1] = "np" -> access[2] \in NamespaceMembers
    [] access[1] = "sym" -> InRange(access[2])
=============================================================================
