----------------------------- MODULE Namespaces -----------------------------
(***************************************************************************)
(* Which library is listed in which linker namespace (Android 7.0+).       *)
(*                                                                         *)
(* Membership is written down twice: a namespace has a list of soinfos,    *)
(* and a soinfo has a primary namespace and a list of secondary ones.  The *)
(* system linker unlists a library it unloads by following the soinfo's    *)
(* side only, so every call of fake-linker that edits one side must keep   *)
(* the other side in step.  The calls are the ones of linker_globals.cpp   *)
(* and linker_export.cpp; each is one action, as one thread performs it.   *)
(***************************************************************************)
EXTENDS Naturals

CONSTANTS
  Soinfo,       (* addresses a soinfo can have                             *)
  Namespace,    (* addresses an android_namespace_t can have               *)
  BootSoinfo,   (* the executable, in solist for the life of the process   *)
  DefaultNs,    (* the namespace named "(default)"                         *)
  NoNamespace,  (* a null namespace pointer                                *)
  DedupLinks,   (* TRUE below Android T, where push_back skips duplicates  *)
  MaxLinks      (* bound: copies of one namespace in one secondary list    *)

ASSUME NamespacesAssumption ==
  /\ BootSoinfo \in Soinfo
  /\ DefaultNs \in Namespace
  /\ NoNamespace \notin Namespace
  /\ DedupLinks \in BOOLEAN
  /\ MaxLinks \in Nat \ {0}

VARIABLES
  solist,       (* the soinfos of the linker's list of loaded libraries    *)
  existing,     (* the namespaces the linker has created                   *)
  primary,      (* soinfo -> its primary namespace                         *)
  links,        (* soinfo -> namespace -> its copies in the secondary list *)
  list,         (* namespace -> the soinfos of its soinfo_list             *)
  dfGlobal,     (* the soinfos with DF_1_GLOBAL in dt_flags_1              *)
  rtldGlobal,   (* the soinfos with RTLD_GLOBAL in rtld_flags              *)
  namespaces    (* ProxyLinker::namespaces, the cached vector              *)

vars == <<solist, existing, primary, links, list, dfGlobal, rtldGlobal,
          namespaces>>

NoLinks == [np \in Namespace |-> 0]

-----------------------------------------------------------------------------
(***************************************************************************)
(* The helpers the calls share.                                            *)
(***************************************************************************)

(* GetAllNamespace(true): what the vector holds after a flush.             *)
GetAllNamespace == namespaces \cup {primary[si] : si \in solist}

(* The copies of a namespace after push_back onto a secondary list.        *)
Pushed(n) == IF DedupLinks THEN 1 ELSE n + 1

(* add_secondary_namespace of every namespace of S, for si.                *)
AddSecondary(si, S) ==
  /\ \A np \in S : Pushed(links[si][np]) <= MaxLinks
  /\ links' = [links EXCEPT ![si] = [np \in Namespace |->
                  IF np \in S THEN Pushed(links[si][np]) ELSE links[si][np]]]

(* remove_secondary_namespace of every namespace of S, for si: every copy. *)
RemoveSecondary(si, S) ==
  links' = [links EXCEPT ![si] = [np \in Namespace |->
                  IF np \in S THEN 0 ELSE links[si][np]]]

(* add_soinfo and remove_soinfo of si on every namespace of S.             *)
Listed(si, S) ==
  [np \in Namespace |-> IF np \in S THEN list[np] \cup {si} ELSE list[np]]

Unlisted(si, S) ==
  [np \in Namespace |-> IF np \in S THEN list[np] \ {si} ELSE list[np]]

(* soinfo::set_dt_flags_1: RTLD_GLOBAL follows the flag held before.       *)
SetDtFlags1(si, global) ==
  /\ rtldGlobal' = IF si \in dfGlobal THEN rtldGlobal \cup {si} ELSE rtldGlobal
  /\ dfGlobal' = IF global THEN dfGlobal \cup {si} ELSE dfGlobal \ {si}

IsGlobalSoinfo(si) == si \in dfGlobal

(* The libraries a namespace offers to relocation and to its children.     *)
GlobalGroup(np) == list[np] \cap dfGlobal

SharedGroup(np) ==
  IF np = DefaultNs THEN GlobalGroup(np) ELSE list[np] \cap rtldGlobal

-----------------------------------------------------------------------------
(***************************************************************************)
(* The system linker (external).                                           *)
(***************************************************************************)

(* dlopen of a library that is not loaded, into namespace np.              *)
Load(si, np, rtld) ==
  /\ si \notin solist
  /\ np \in existing
  /\ solist' = solist \cup {si}
  /\ primary' = [primary EXCEPT ![si] = np]
  /\ links' = [links EXCEPT ![si] = NoLinks]
  /\ list' = Listed(si, {np})
  /\ dfGlobal' = dfGlobal \ {si}
  /\ rtldGlobal' = IF rtld THEN rtldGlobal \cup {si} ELSE rtldGlobal \ {si}
  /\ UNCHANGED <<existing, namespaces>>

(* The last dlclose: the soinfo leaves the lists its own side names, and   *)
(* its block goes back to the allocator.                                   *)
Unload(si) ==
  /\ si \in solist \ {BootSoinfo}
  /\ list' = Unlisted(si, {np \in Namespace :
                              np = primary[si] \/ links[si][np] > 0})
  /\ solist' = solist \ {si}
  /\ primary' = [primary EXCEPT ![si] = NoNamespace]
  /\ links' = [links EXCEPT ![si] = NoLinks]
  /\ dfGlobal' = dfGlobal \ {si}
  /\ rtldGlobal' = rtldGlobal \ {si}
  /\ UNCHANGED <<existing, namespaces>>

(* create_namespace, also behind CallCreateNamespace: the new namespace    *)
(* inherits its parent's shared group, or all of it when the type is       *)
(* ANDROID_NAMESPACE_TYPE_SHARED.                                          *)
CreateNamespace(np, parent, shared) ==
  LET inherited == IF shared THEN list[parent] ELSE SharedGroup(parent) IN
  /\ np \notin existing
  /\ parent \in existing
  /\ existing' = existing \cup {np}
  /\ list' = [list EXCEPT ![np] = inherited]
  /\ links' = [si \in Soinfo |->
                 IF si \in inherited THEN [links[si] EXCEPT ![np] = 1]
                                     ELSE links[si]]
  /\ UNCHANGED <<solist, primary, dfGlobal, rtldGlobal, namespaces>>

-----------------------------------------------------------------------------
(***************************************************************************)
(* The calls of fake-linker.  A caller passes a soinfo that is loaded and  *)
(* a namespace that exists.                                                *)
(***************************************************************************)

AddSoinfoToGlobal(si) ==
  LET others == GetAllNamespace \ {primary[si]} IN
  /\ si \in solist
  /\ SetDtFlags1(si, TRUE)
  /\ namespaces' = GetAllNamespace
  /\ list' = Listed(si, others)
  /\ AddSecondary(si, others)
  /\ UNCHANGED <<solist, existing, primary>>

(* Mutant of RemoveGlobalSoinfo: the whole secondary list is cleared,      *)
(* namespaces the vector does not know included.                           *)
RemoveGlobalClearsAll(si) ==
  LET others == GetAllNamespace \ {primary[si]} IN
  /\ si \in solist
  /\ SetDtFlags1(si, FALSE)
  /\ namespaces' = GetAllNamespace
  /\ list' = Unlisted(si, others)
  /\ RemoveSecondary(si, Namespace)
  /\ UNCHANGED <<solist, existing, primary>>

RemoveGlobalSoinfo(si) ==
  LET others == GetAllNamespace \ {primary[si]} IN
  /\ si \in solist
  /\ SetDtFlags1(si, FALSE)
  /\ namespaces' = GetAllNamespace
  /\ list' = Unlisted(si, others)
  /\ RemoveSecondary(si, others)
  /\ UNCHANGED <<solist, existing, primary>>

(* Mutant of AddGlobalSoinfoToNamespace: add_secondary_namespace is missed.*)
AddGlobalUnlinked(si, np) ==
  /\ si \in solist
  /\ np \in existing
  /\ SetDtFlags1(si, TRUE)
  /\ list' = Listed(si, {np})
  /\ UNCHANGED <<solist, existing, primary, links, namespaces>>

AddGlobalSoinfoToNamespace(si, np) ==
  /\ si \in solist
  /\ np \in existing
  /\ SetDtFlags1(si, TRUE)
  /\ list' = Listed(si, {np})
  /\ AddSecondary(si, {np})
  /\ UNCHANGED <<solist, existing, primary, namespaces>>

(* android_namespace_remove_soinfo without clear_global_flags ...          *)
RemoveSoinfoFromNamespace(si, np) ==
  /\ si \in solist
  /\ np \in existing
  /\ list' = Unlisted(si, {np})
  /\ IF IsGlobalSoinfo(si) THEN RemoveSecondary(si, {np}) ELSE UNCHANGED links
  /\ UNCHANGED <<solist, existing, primary, dfGlobal, rtldGlobal, namespaces>>

(* ... and with it: the whole secondary list of a global soinfo goes, and  *)
(* only the list of np is edited.                                          *)
RemoveSoinfoClearGlobal(si, np) ==
  /\ si \in solist
  /\ np \in existing
  /\ list' = Unlisted(si, {np})
  /\ IF IsGlobalSoinfo(si)
       THEN SetDtFlags1(si, FALSE) /\ links' = [links EXCEPT ![si] = NoLinks]
       ELSE UNCHANGED <<links, dfGlobal, rtldGlobal>>
  /\ UNCHANGED <<solist, existing, primary, namespaces>>

(* Mutant of Moved: the primary namespace is set before it is asked to     *)
(* remove the soinfo, so the old one keeps it.                             *)
MovedTooLate(si, np) == Listed(si, {np})

(* remove_soinfo on the old primary namespace, then add_soinfo on np.      *)
Moved(si, np) ==
  [n \in Namespace |-> IF n = np THEN list[n] \cup {si}
                       ELSE IF n = primary[si] THEN list[n] \ {si}
                       ELSE list[n]]

ChangeSoinfoOfNamespace(si, np) ==
  /\ si \in solist
  /\ np \in existing
  /\ list' = Moved(si, np)
  /\ primary' = [primary EXCEPT ![si] = np]
  /\ UNCHANGED <<solist, existing, links, dfGlobal, rtldGlobal, namespaces>>

(* ChangeSoinfoOfNamespace with a null namespace.  The default namespace   *)
(* is found through GetAllNamespace; it is always there, BootSoinfo or not,*)
(* unless no loaded library has it as its primary namespace.               *)
AddSoinfoToDefaultNamespace(si) ==
  /\ si \in solist
  /\ primary[si] # DefaultNs
  /\ namespaces' = GetAllNamespace
  /\ IF DefaultNs \in GetAllNamespace
       THEN /\ list' = Moved(si, DefaultNs)
            /\ primary' = [primary EXCEPT ![si] = DefaultNs]
       ELSE UNCHANGED <<list, primary>>
  /\ UNCHANGED <<solist, existing, links, dfGlobal, rtldGlobal>>

(* android_namespace_query_all, FindNamespaceByName: a flush and a read.   *)
QueryAllNamespaces ==
  /\ namespaces' = GetAllNamespace
  /\ UNCHANGED <<solist, existing, primary, links, list, dfGlobal, rtldGlobal>>

(* soinfo_add_second_namespace and soinfo_remove_second_namespace edit the *)
(* soinfo's side only, android_namespace_add_soinfo the namespace's only.  *)
AddSecondNamespace(si, np) ==
  /\ si \in solist
  /\ np \in existing
  /\ AddSecondary(si, {np})
  /\ UNCHANGED <<solist, existing, primary, list, dfGlobal, rtldGlobal,
                 namespaces>>

RemoveSecondNamespace(si, np) ==
  /\ si \in solist
  /\ np \in existing
  /\ RemoveSecondary(si, {np})
  /\ UNCHANGED <<solist, existing, primary, list, dfGlobal, rtldGlobal,
                 namespaces>>

AddSoinfo(si, np) ==
  /\ si \in solist
  /\ np \in existing
  /\ list' = Listed(si, {np})
  /\ UNCHANGED <<solist, existing, primary, links, dfGlobal, rtldGlobal,
                 namespaces>>

-----------------------------------------------------------------------------
Init ==
  /\ solist = {BootSoinfo}
  /\ existing = {DefaultNs}
  /\ primary = [si \in Soinfo |->
                  IF si = BootSoinfo THEN DefaultNs ELSE NoNamespace]
  /\ links = [si \in Soinfo |-> NoLinks]
  /\ list = [np \in Namespace |->
               IF np = DefaultNs THEN {BootSoinfo} ELSE {}]
  /\ dfGlobal = {}
  /\ rtldGlobal = {}
  /\ namespaces = {}

SystemNext ==
  \/ \E si \in Soinfo, np \in Namespace, rtld \in BOOLEAN : Load(si, np, rtld)
  \/ \E si \in Soinfo : Unload(si)
  \/ \E np, parent \in Namespace, shared \in BOOLEAN :
        CreateNamespace(np, parent, shared)

(* The calls that keep the two sides in step ...                           *)
PairedNext ==
  \/ \E si \in Soinfo :
        \/ AddSoinfoToGlobal(si)
        \/ RemoveGlobalSoinfo(si)
        \/ AddSoinfoToDefaultNamespace(si)
  \/ \E si \in Soinfo, np \in Namespace :
        \/ AddGlobalSoinfoToNamespace(si, np)
        \/ RemoveSoinfoFromNamespace(si, np)
        \/ ChangeSoinfoOfNamespace(si, np)
        \/ AddSecondNamespace(si, np)
  \/ QueryAllNamespaces

(* ... and those that edit one side and leave the other to the caller.     *)
RawNext ==
  \E si \in Soinfo, np \in Namespace :
     \/ RemoveSoinfoClearGlobal(si, np)
     \/ RemoveSecondNamespace(si, np)
     \/ AddSoinfo(si, np)

Next == SystemNext \/ PairedNext \/ RawNext

Spec == Init /\ [][Next]_vars

(* A process that never makes a raw call.                                  *)
PairedSpec == Init /\ [][SystemNext \/ PairedNext]_vars

-----------------------------------------------------------------------------
TypeOK ==
  /\ solist \in SUBSET Soinfo
  /\ existing \in SUBSET Namespace
  /\ primary \in [Soinfo -> Namespace \cup {NoNamespace}]
  /\ links \in [Soinfo -> [Namespace -> 0 .. MaxLinks]]
  /\ list \in [Namespace -> SUBSET Soinfo]
  /\ dfGlobal \in SUBSET Soinfo
  /\ rtldGlobal \in SUBSET Soinfo
  /\ namespaces \in SUBSET Namespace

(* NoDanglingMember: a soinfo in a namespace's list is loaded, and names    *)
(* that namespace as its primary or among its secondary ones.  The linker  *)
(* unlists a library it unloads through those (remove_all_links), so a     *)
(* member without them becomes a pointer to freed memory in the list.      *)
NoDanglingMember ==
  \A np \in Namespace : \A si \in list[np] :
     si \in solist /\ (primary[si] = np \/ links[si][np] > 0)

(* RefinesVisibility: the bookkeeping keeps the promise of Visibility: an  *)
(* unload hides the library everywhere, a load at a reused address starts  *)
(* afresh, and a call edits the library it was made for.                   *)
V == INSTANCE Visibility
       WITH live <- solist,
            seen <- [si \in Soinfo |-> {np \in Namespace : si \in list[np]}]

RefinesVisibility == V!Spec

(* MovesHome: when a loaded library's primary namespace changes, the same  *)
(* call puts it in the new one's list and takes it out of the old one's.   *)
MovesHome ==
  [][\A si \in solist \cap solist' : primary'[si] # primary[si] =>
        si \in list'[primary'[si]] /\ si \notin list'[primary[si]]]_vars

=============================================================================
