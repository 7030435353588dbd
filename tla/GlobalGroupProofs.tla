-------------------------- MODULE GlobalGroupProofs --------------------------
(***************************************************************************)
(* Proofs about the two forms of the global group: Namespaces, for every   *)
(* set of libraries and namespaces and both kinds of list; and Preloads,   *)
(* for an array of any length and any libraries.  The two have nothing in  *)
(* common but the calls' names.                                            *)
(***************************************************************************)
EXTENDS Namespaces, Preloads, TLAPS

(* A loaded library has a primary namespace, so the vector of namespaces   *)
(* that GetAllNamespace collects holds no null.                            *)
LoadedHasPrimary == \A si \in solist : primary[si] \in Namespace

TypeInv == TypeOK /\ LoadedHasPrimary

(* Nothing refers to a namespace the linker has not created.               *)
KnownNamespaces ==
  /\ DefaultNs \in existing
  /\ namespaces \subseteq existing
  /\ \A si \in solist : primary[si] \in existing
  /\ \A np \in Namespace \ existing : list[np] = {}

(* The inductive invariant of a process that makes no raw call.            *)
MembershipInv == TypeInv /\ NoDanglingMember /\ KnownNamespaces

-----------------------------------------------------------------------------
(* AddSecondaryType: push_back keeps the secondary lists within MaxLinks   *)
(* copies, and only ever adds.                                             *)
LEMMA AddSecondaryType ==
  ASSUME TypeOK, NEW si \in Soinfo, NEW S, AddSecondary(si, S)
  PROVE  /\ links' \in [Soinfo -> [Namespace -> 0 .. MaxLinks]]
         /\ \A o \in Soinfo \ {si} : links'[o] = links[o]
         /\ \A np \in Namespace : links[si][np] > 0 => links'[si][np] > 0
         /\ \A np \in Namespace \cap S : links'[si][np] > 0
<1> DEFINE f == [np \in Namespace |->
                  IF np \in S THEN Pushed(links[si][np]) ELSE links[si][np]]
<1>1. \A np \in Namespace : links[si][np] \in 0 .. MaxLinks
  BY DEF TypeOK
<1>2. \A np \in Namespace : f[np] \in 0 .. MaxLinks
  BY <1>1, NamespacesAssumption DEF Pushed, AddSecondary
<1>3. \A np \in Namespace : (links[si][np] > 0 \/ np \in S) => f[np] > 0
  BY <1>1 DEF Pushed
<1>4. f \in [Namespace -> 0 .. MaxLinks]
  BY <1>2
<1>5. links' = [links EXCEPT ![si] = f]
  BY DEF AddSecondary
<1> HIDE DEF f
<1>6. QED
  BY <1>3, <1>4, <1>5 DEF TypeOK

(* GetAllNamespaceType: the flushed vector holds namespaces.               *)
LEMMA GetAllNamespaceType ==
  ASSUME TypeInv
  PROVE  GetAllNamespace \in SUBSET Namespace
BY DEF TypeInv, TypeOK, LoadedHasPrimary, GetAllNamespace

(* TypeStep: every call, raw or not, and every step of the system linker   *)
(* keeps the variables in their types.                                     *)
LEMMA TypeStep == TypeInv /\ [Next]_vars => TypeInv'
<1> SUFFICES ASSUME TypeInv, [Next]_vars PROVE TypeInv'
  OBVIOUS
<1> USE NamespacesAssumption DEF TypeInv, TypeOK, LoadedHasPrimary
<1>1. ASSUME NEW si \in Soinfo, NEW np \in Namespace, NEW rtld \in BOOLEAN,
             Load(si, np, rtld)
      PROVE  TypeInv'
  BY <1>1 DEF Load, NoLinks, Listed
<1>2. ASSUME NEW si \in Soinfo, Unload(si)
      PROVE  TypeInv'
  BY <1>2 DEF Unload, NoLinks, Unlisted
<1>3. ASSUME NEW np \in Namespace, NEW parent \in Namespace,
             NEW shared \in BOOLEAN, CreateNamespace(np, parent, shared)
      PROVE  TypeInv'
  BY <1>3 DEF CreateNamespace, SharedGroup, GlobalGroup
<1>4. ASSUME NEW si \in Soinfo, AddSoinfoToGlobal(si)
      PROVE  TypeInv'
  BY <1>4, GetAllNamespaceType, AddSecondaryType
     DEF AddSoinfoToGlobal, SetDtFlags1, Listed
<1>5. ASSUME NEW si \in Soinfo, RemoveGlobalSoinfo(si)
      PROVE  TypeInv'
  BY <1>5, GetAllNamespaceType
     DEF RemoveGlobalSoinfo, SetDtFlags1, Unlisted, RemoveSecondary
<1>6. ASSUME NEW si \in Soinfo, AddSoinfoToDefaultNamespace(si)
      PROVE  TypeInv'
  BY <1>6, GetAllNamespaceType DEF AddSoinfoToDefaultNamespace, Moved
<1>7. ASSUME NEW si \in Soinfo, NEW np \in Namespace,
             AddGlobalSoinfoToNamespace(si, np)
      PROVE  TypeInv'
  BY <1>7, AddSecondaryType
     DEF AddGlobalSoinfoToNamespace, SetDtFlags1, Listed
<1>8. ASSUME NEW si \in Soinfo, NEW np \in Namespace,
             RemoveSoinfoFromNamespace(si, np)
      PROVE  TypeInv'
  BY <1>8 DEF RemoveSoinfoFromNamespace, Unlisted, RemoveSecondary
<1>9. ASSUME NEW si \in Soinfo, NEW np \in Namespace,
             ChangeSoinfoOfNamespace(si, np)
      PROVE  TypeInv'
  BY <1>9 DEF ChangeSoinfoOfNamespace, Moved
<1>10. ASSUME NEW si \in Soinfo, NEW np \in Namespace,
              AddSecondNamespace(si, np)
       PROVE  TypeInv'
  BY <1>10, AddSecondaryType DEF AddSecondNamespace
<1>11. ASSUME QueryAllNamespaces
       PROVE  TypeInv'
  BY <1>11, GetAllNamespaceType DEF QueryAllNamespaces
<1>12. ASSUME NEW si \in Soinfo, NEW np \in Namespace,
              RemoveSoinfoClearGlobal(si, np)
       PROVE  TypeInv'
  BY <1>12 DEF RemoveSoinfoClearGlobal, Unlisted, SetDtFlags1, NoLinks
<1>13. ASSUME NEW si \in Soinfo, NEW np \in Namespace,
              RemoveSecondNamespace(si, np)
       PROVE  TypeInv'
  BY <1>13 DEF RemoveSecondNamespace, RemoveSecondary
<1>14. ASSUME NEW si \in Soinfo, NEW np \in Namespace, AddSoinfo(si, np)
       PROVE  TypeInv'
  BY <1>14 DEF AddSoinfo, Listed
<1>15. CASE UNCHANGED vars
  BY <1>15 DEF vars
<1>16. QED
  BY <1>1, <1>2, <1>3, <1>4, <1>5, <1>6, <1>7, <1>8, <1>9, <1>10, <1>11,
     <1>12, <1>13, <1>14, <1>15 DEF Next, SystemNext, PairedNext, RawNext

(* InitType: the initial state is type correct.                            *)
LEMMA InitType == Init => TypeInv
BY NamespacesAssumption DEF Init, TypeInv, TypeOK, LoadedHasPrimary, NoLinks

(* TypeCorrect: every behaviour, raw calls included, is type correct.      *)
THEOREM TypeCorrect == Spec => []TypeOK
<1>1. TypeInv => TypeOK
  BY DEF TypeInv
<1>2. QED
  BY <1>1, InitType, TypeStep, PTL DEF Spec

-----------------------------------------------------------------------------
(* MembershipStep: what a paired call or a step of the system linker does  *)
(* to one side of the bookkeeping it also does to the other.               *)
LEMMA MembershipStep ==
  MembershipInv /\ [SystemNext \/ PairedNext]_vars => MembershipInv'
<1> SUFFICES ASSUME MembershipInv, [SystemNext \/ PairedNext]_vars
             PROVE  MembershipInv'
  OBVIOUS
<1> USE NamespacesAssumption
<1>0. /\ TypeInv /\ TypeInv'
      /\ TypeOK
      /\ NoDanglingMember
      /\ KnownNamespaces
      /\ GetAllNamespace \subseteq existing
  BY TypeStep DEF MembershipInv, Next, TypeInv, KnownNamespaces, GetAllNamespace
<1> SUFFICES NoDanglingMember' /\ KnownNamespaces'
  BY <1>0 DEF MembershipInv
<1> USE <1>0 DEF TypeOK, NoDanglingMember, KnownNamespaces
<1>1. ASSUME NEW si \in Soinfo, NEW np \in Namespace, NEW rtld \in BOOLEAN,
             Load(si, np, rtld)
      PROVE  NoDanglingMember' /\ KnownNamespaces'
  BY <1>1 DEF Load, Listed
<1>2. ASSUME NEW si \in Soinfo, Unload(si)
      PROVE  NoDanglingMember' /\ KnownNamespaces'
  BY <1>2 DEF Unload, Unlisted
<1>3. ASSUME NEW np \in Namespace, NEW parent \in Namespace,
             NEW shared \in BOOLEAN, CreateNamespace(np, parent, shared)
      PROVE  NoDanglingMember' /\ KnownNamespaces'
  BY <1>3 DEF CreateNamespace, SharedGroup, GlobalGroup
<1>4. ASSUME NEW si \in Soinfo, AddSoinfoToGlobal(si)
      PROVE  NoDanglingMember' /\ KnownNamespaces'
  BY <1>4, AddSecondaryType DEF AddSoinfoToGlobal, Listed
<1>5. ASSUME NEW si \in Soinfo, RemoveGlobalSoinfo(si)
      PROVE  NoDanglingMember' /\ KnownNamespaces'
  BY <1>5 DEF RemoveGlobalSoinfo, Unlisted, RemoveSecondary
<1>6. ASSUME NEW si \in Soinfo, AddSoinfoToDefaultNamespace(si)
      PROVE  NoDanglingMember' /\ KnownNamespaces'
  <2>1. CASE DefaultNs \in GetAllNamespace
    <3>1. /\ DefaultNs \in existing
          /\ list' = Moved(si, DefaultNs)
          /\ primary' = [primary EXCEPT ![si] = DefaultNs]
          /\ namespaces' = GetAllNamespace
          /\ UNCHANGED <<solist, existing, links>>
          /\ si \in solist
      BY <1>6, <2>1 DEF AddSoinfoToDefaultNamespace
    <3>2. KnownNamespaces'
      BY <3>1 DEF Moved
    <3>3. NoDanglingMember'
      BY <3>1 DEF Moved
    <3>4. QED
      BY <3>2, <3>3
  <2>2. CASE DefaultNs \notin GetAllNamespace
    BY <1>6, <2>2 DEF AddSoinfoToDefaultNamespace
  <2>3. QED
    BY <2>1, <2>2
<1>7. ASSUME NEW si \in Soinfo, NEW np \in Namespace,
             AddGlobalSoinfoToNamespace(si, np)
      PROVE  NoDanglingMember' /\ KnownNamespaces'
  BY <1>7, AddSecondaryType DEF AddGlobalSoinfoToNamespace, Listed
<1>8. ASSUME NEW si \in Soinfo, NEW np \in Namespace,
             RemoveSoinfoFromNamespace(si, np)
      PROVE  NoDanglingMember' /\ KnownNamespaces'
  BY <1>8 DEF RemoveSoinfoFromNamespace, Unlisted, RemoveSecondary
<1>9. ASSUME NEW si \in Soinfo, NEW np \in Namespace,
             ChangeSoinfoOfNamespace(si, np)
      PROVE  NoDanglingMember' /\ KnownNamespaces'
  BY <1>9 DEF ChangeSoinfoOfNamespace, Moved
<1>10. ASSUME NEW si \in Soinfo, NEW np \in Namespace,
              AddSecondNamespace(si, np)
       PROVE  NoDanglingMember' /\ KnownNamespaces'
  BY <1>10, AddSecondaryType DEF AddSecondNamespace
<1>11. ASSUME QueryAllNamespaces
       PROVE  NoDanglingMember' /\ KnownNamespaces'
  BY <1>11 DEF QueryAllNamespaces
<1>12. CASE UNCHANGED vars
  BY <1>12 DEF vars
<1>13. QED
  BY <1>1, <1>2, <1>3, <1>4, <1>5, <1>6, <1>7, <1>8, <1>9, <1>10, <1>11,
     <1>12 DEF SystemNext, PairedNext

(* MembershipCorrect: a process that makes no raw call keeps the inductive *)
(* invariant.                                                              *)
LEMMA MembershipCorrect == PairedSpec => []MembershipInv
<1>1. Init => MembershipInv
  <2> SUFFICES ASSUME Init PROVE MembershipInv
    OBVIOUS
  <2>1. TypeInv
    BY InitType
  <2>2. NoDanglingMember
    BY NamespacesAssumption DEF Init, NoDanglingMember
  <2>3. KnownNamespaces
    BY NamespacesAssumption DEF Init, KnownNamespaces
  <2>4. QED
    BY <2>1, <2>2, <2>3 DEF MembershipInv
<1>2. QED
  BY <1>1, MembershipStep, PTL DEF PairedSpec

(* NoDanglingMemberCorrect: without raw calls no namespace ever lists a    *)
(* library that an unload would leave there.                               *)
THEOREM NoDanglingMemberCorrect == PairedSpec => []NoDanglingMember
<1>1. MembershipInv => NoDanglingMember
  BY DEF MembershipInv
<1>2. QED
  BY <1>1, MembershipCorrect, PTL

-----------------------------------------------------------------------------
(* What Visibility calls seen.                                             *)
Seen == [si \in Soinfo |-> {np \in Namespace : si \in list[np]}]

(* EditsOneLibrary: a call that changes the lists for one loaded library   *)
(* is a Place step of the abstract specification.                          *)
LEMMA EditsOneLibrary ==
  ASSUME NEW si \in solist, MembershipInv, MembershipInv', solist' = solist,
         \A o \in Soinfo \ {si} : \A np \in Namespace :
            o \in list'[np] <=> o \in list[np]
  PROVE  V!Place(si)
<1>1. si \in Soinfo
  BY DEF MembershipInv, TypeInv, TypeOK
<1>2. Seen' = [Seen EXCEPT ![si] = {np \in Namespace : si \in list'[np]}]
  BY <1>1 DEF Seen
<1>3. {np \in Namespace : si \in list'[np]} \in SUBSET Namespace
  OBVIOUS
<1>4. QED
  BY <1>2, <1>3 DEF V!Place, Seen

(* RefinementStep: every paired call and every step of the system linker   *)
(* is a step of Visibility or leaves it alone.                             *)
LEMMA RefinementStep ==
  /\ MembershipInv
  /\ MembershipInv'
  /\ [SystemNext \/ PairedNext]_vars
  => [V!Next]_V!vars
<1> SUFFICES ASSUME MembershipInv, MembershipInv',
                    [SystemNext \/ PairedNext]_vars
             PROVE  V!Next \/ UNCHANGED <<solist, Seen>>
  BY DEF V!vars, Seen
<1> USE NamespacesAssumption
<1>0. /\ TypeOK
      /\ NoDanglingMember
      /\ KnownNamespaces
  BY DEF MembershipInv, TypeInv
<1> USE <1>0 DEF TypeOK
<1>1. ASSUME NEW si \in Soinfo, NEW np \in Namespace, NEW rtld \in BOOLEAN,
             Load(si, np, rtld)
      PROVE  V!Next
  <2>1. \A n \in Namespace : si \notin list[n]
    BY <1>1 DEF Load, NoDanglingMember
  <2>2. \A n \in Namespace :
          list'[n] = IF n = np THEN list[n] \cup {si} ELSE list[n]
    BY <1>1 DEF Load, Listed
  <2>3. \A o \in Soinfo : Seen'[o] = IF o = si THEN {np} ELSE Seen[o]
    <3>1. \A n \in Namespace : si \in list'[n] <=> n = np
      BY <2>1, <2>2
    <3>2. {n \in Namespace : si \in list'[n]} = {np}
      BY <3>1
    <3>3. \A o \in Soinfo \ {si} : \A n \in Namespace :
             o \in list'[n] <=> o \in list[n]
      BY <2>2
    <3>4. QED
      BY <3>2, <3>3 DEF Seen
  <2>4. Seen' = [Seen EXCEPT ![si] = {np}]
    BY <2>3 DEF Seen
  <2>5. V!Arrive(si, np)
    BY <1>1, <2>4 DEF Load, V!Arrive, Seen
  <2>6. QED
    BY <2>5 DEF V!Next
<1>2. ASSUME NEW si \in Soinfo, Unload(si)
      PROVE  V!Next
  <2>1. \A n \in Namespace : list'[n] = list[n] \ {si}
    BY <1>2 DEF Unload, Unlisted, NoDanglingMember
  <2>2. \A o \in Soinfo : Seen'[o] = IF o = si THEN {} ELSE Seen[o]
    BY <2>1 DEF Seen
  <2>3. Seen' = [Seen EXCEPT ![si] = {}]
    BY <2>2 DEF Seen
  <2>4. V!Depart(si)
    BY <1>2, <2>3 DEF Unload, V!Depart, Seen
  <2>5. QED
    BY <2>4 DEF V!Next
<1>3. ASSUME NEW np \in Namespace, NEW parent \in Namespace,
             NEW shared \in BOOLEAN, CreateNamespace(np, parent, shared)
      PROVE  V!Next
  <2> DEFINE S == IF shared THEN list[parent] ELSE SharedGroup(parent)
  <2>1. S \in SUBSET solist
    BY <1>3 DEF SharedGroup, GlobalGroup, NoDanglingMember
  <2>2. list[np] = {} /\ list' = [list EXCEPT ![np] = S] /\ solist' = solist
    BY <1>3 DEF CreateNamespace, KnownNamespaces
  <2> HIDE DEF S
  <2>3. \A si \in Soinfo : np \notin Seen[si]
    BY <2>2 DEF Seen
  <2>4. Seen' = [si \in Soinfo |-> IF si \in S THEN Seen[si] \cup {np}
                                               ELSE Seen[si]]
    BY <2>1, <2>2 DEF Seen
  <2>5. V!Inherit(np)
    BY <2>1, <2>2, <2>3, <2>4 DEF V!Inherit, Seen
  <2>6. QED
    BY <2>5 DEF V!Next
<1>4. ASSUME NEW si \in Soinfo, AddSoinfoToGlobal(si)
      PROVE  V!Next
  BY <1>4, EditsOneLibrary DEF AddSoinfoToGlobal, Listed, V!Next
<1>5. ASSUME NEW si \in Soinfo, RemoveGlobalSoinfo(si)
      PROVE  V!Next
  BY <1>5, EditsOneLibrary DEF RemoveGlobalSoinfo, Unlisted, V!Next
<1>6. ASSUME NEW si \in Soinfo, AddSoinfoToDefaultNamespace(si)
      PROVE  V!Next
  BY <1>6, EditsOneLibrary DEF AddSoinfoToDefaultNamespace, Moved, V!Next
<1>7. ASSUME NEW si \in Soinfo, NEW np \in Namespace,
             AddGlobalSoinfoToNamespace(si, np)
      PROVE  V!Next
  BY <1>7, EditsOneLibrary DEF AddGlobalSoinfoToNamespace, Listed, V!Next
<1>8. ASSUME NEW si \in Soinfo, NEW np \in Namespace,
             RemoveSoinfoFromNamespace(si, np)
      PROVE  V!Next
  BY <1>8, EditsOneLibrary DEF RemoveSoinfoFromNamespace, Unlisted, V!Next
<1>9. ASSUME NEW si \in Soinfo, NEW np \in Namespace,
             ChangeSoinfoOfNamespace(si, np)
      PROVE  V!Next
  BY <1>9, EditsOneLibrary DEF ChangeSoinfoOfNamespace, Moved, V!Next
<1>10. ASSUME NEW si \in Soinfo, NEW np \in Namespace,
              AddSecondNamespace(si, np)
       PROVE  UNCHANGED <<solist, Seen>>
  BY <1>10 DEF AddSecondNamespace, Seen
<1>11. ASSUME QueryAllNamespaces
       PROVE  UNCHANGED <<solist, Seen>>
  BY <1>11 DEF QueryAllNamespaces, Seen
<1>12. CASE UNCHANGED vars
  BY <1>12 DEF vars, Seen
<1>13. QED
  BY <1>1, <1>2, <1>3, <1>4, <1>5, <1>6, <1>7, <1>8, <1>9, <1>10, <1>11,
     <1>12 DEF SystemNext, PairedNext

(* RefinesVisibilityCorrect: without raw calls the bookkeeping implements  *)
(* Visibility: an unloaded library is seen nowhere, and a call for one     *)
(* library changes nothing for another.                                    *)
THEOREM RefinesVisibilityCorrect == PairedSpec => RefinesVisibility
<1>1. Init => V!Init
  BY NamespacesAssumption DEF Init, V!Init
<1>2. QED
  BY <1>1, RefinementStep, MembershipCorrect, PTL
     DEF PairedSpec, RefinesVisibility, V!Spec

-----------------------------------------------------------------------------
(* MovesHomeCorrect: raw calls or not, whichever call changes a loaded     *)
(* library's primary namespace also moves it between the two lists.        *)
THEOREM MovesHomeCorrect == Spec => MovesHome
<1> DEFINE Moves == \A si \in solist \cap solist' : primary'[si] # primary[si] =>
                      si \in list'[primary'[si]] /\ si \notin list'[primary[si]]
<1>1. TypeInv /\ [Next]_vars => [Moves]_vars
  <2> SUFFICES ASSUME TypeInv, Next PROVE Moves
    OBVIOUS
  <2> USE DEF TypeInv, TypeOK, LoadedHasPrimary
  <2>1. CASE SystemNext
    BY <2>1 DEF SystemNext, Load, Unload, CreateNamespace
  <2>2. ASSUME NEW si \in Soinfo, NEW np \in Namespace, si \in solist,
               list' = Moved(si, np), primary' = [primary EXCEPT ![si] = np]
        PROVE  Moves
    BY <2>2 DEF Moved
  <2>3. ASSUME UNCHANGED primary
        PROVE  Moves
    BY <2>3
  <2> HIDE DEF Moves
  <2>4. CASE PairedNext
    BY <2>2, <2>3, <2>4, NamespacesAssumption
       DEF PairedNext, AddSoinfoToGlobal, RemoveGlobalSoinfo,
           AddSoinfoToDefaultNamespace, AddGlobalSoinfoToNamespace,
           RemoveSoinfoFromNamespace, ChangeSoinfoOfNamespace,
           AddSecondNamespace, QueryAllNamespaces
  <2>5. CASE RawNext
    BY <2>3, <2>5
       DEF RawNext, RemoveSoinfoClearGlobal, RemoveSecondNamespace, AddSoinfo
  <2>6. QED
    BY <2>1, <2>4, <2>5 DEF Next
<1>2. QED
  BY <1>1, InitType, TypeStep, PTL DEF Spec, MovesHome

-----------------------------------------------------------------------------
(***************************************************************************)
(* Preloads.                                                               *)
(***************************************************************************)

(* A removal is always made for a library, never for a null pointer.       *)
Typed == ArrayTypeOK /\ (pc = "remove" => asked \in Library)

LEMMA ArrayTypeStep == Typed /\ [PreloadsNext]_preloadsVars => Typed'
<1> SUFFICES ASSUME Typed, [PreloadsNext]_preloadsVars PROVE Typed'
  OBVIOUS
<1> USE PreloadsAssumption DEF Typed, ArrayTypeOK, Slot
<1>1. ASSUME NEW s \in Library, AddToPreloads(s) PROVE Typed'
  <2>1. preloads' \in [Slot -> Library \cup {Null}]
    BY <1>1 DEF AddToPreloads
  <2>2. QED BY <1>1, <2>1 DEF AddToPreloads
<1>2. ASSUME NEW s \in Library, RemoveFromPreloads(s) PROVE Typed'
  BY <1>2 DEF RemoveFromPreloads
<1>3. CASE RemoveMatch
  BY <1>3 DEF RemoveMatch
<1>4. CASE RemoveShift
  BY <1>4 DEF RemoveShift
<1>5. CASE RemoveReturn
  BY <1>5 DEF RemoveReturn
<1>6. CASE UNCHANGED preloadsVars
  BY <1>6 DEF preloadsVars
<1>7. QED BY <1>1, <1>2, <1>3, <1>4, <1>5, <1>6 DEF PreloadsNext

LEMMA TypedAlways == PreloadsSpec => []Typed
<1>1. PreloadsInit => Typed
  BY PreloadsAssumption DEF PreloadsInit, Typed, ArrayTypeOK, Slot
<1>2. QED BY <1>1, ArrayTypeStep, PTL DEF PreloadsSpec

(* ArrayTypeCorrect: the array keeps its length, its slots hold libraries  *)
(* or null, and the loop never leaves its bounds.                          *)
THEOREM ArrayTypeCorrect == PreloadsSpec => []ArrayTypeOK
BY TypedAlways, PTL DEF Typed

-----------------------------------------------------------------------------
(***************************************************************************)
(* The slot index is spare: inside the loop every other library has a copy *)
(* somewhere else, so RemoveShift may write over it.                       *)
(***************************************************************************)
IndexIsSpare ==
  pc = "remove" =>
    /\ index > 0 => index + 1 = i
    /\ \A s \in Held(before) \ {asked} :
          \E j \in Slot : j # index /\ preloads[j] = s

KeptInv == OthersKept /\ IndexIsSpare

LEMMA SpareKeeps ==
  ASSUME Typed, pc = "remove", IndexIsSpare
  PROVE  OthersKept
BY PreloadsAssumption DEF Typed, ArrayTypeOK, IndexIsSpare, OthersKept, Held

LEMMA KeptStep == Typed /\ KeptInv /\ [PreloadsNext]_preloadsVars => KeptInv'
<1> SUFFICES ASSUME Typed, KeptInv, [PreloadsNext]_preloadsVars PROVE KeptInv'
  OBVIOUS
<1>t. Typed' BY ArrayTypeStep
<1> USE PreloadsAssumption
<1>1. ASSUME NEW s \in Library, AddToPreloads(s) PROVE KeptInv'
  BY <1>1 DEF AddToPreloads, KeptInv, OthersKept, IndexIsSpare, Held
<1>2. ASSUME NEW s \in Library, RemoveFromPreloads(s) PROVE KeptInv'
  BY <1>2 DEF RemoveFromPreloads, KeptInv, OthersKept, IndexIsSpare, Held,
              Slot
<1>3. CASE RemoveMatch
  <2>1. IndexIsSpare'
    <3>1. ASSUME NEW s \in Held(before) \ {asked}
          PROVE  \E j \in Slot : j # i /\ preloads'[j] = s
      <4>1. PICK j \in Slot : j # index /\ preloads[j] = s
        BY <1>3, <3>1 DEF RemoveMatch, KeptInv, IndexIsSpare
      <4>2. QED BY <1>3, <3>1, <4>1 DEF RemoveMatch, Typed, ArrayTypeOK
    <3>2. QED
      BY <1>3, <3>1 DEF RemoveMatch, IndexIsSpare, Typed, ArrayTypeOK, Held
  <2>2. OthersKept'
    BY <1>3, <2>1 DEF RemoveMatch, IndexIsSpare, OthersKept, Held
  <2>3. QED BY <2>1, <2>2 DEF KeptInv
<1>4. CASE RemoveShift
  <2>1. IndexIsSpare'
    <3>1. ASSUME NEW s \in Held(before) \ {asked}
          PROVE  \E j \in Slot : j # index' /\ preloads'[j] = s
      <4>1. PICK j \in Slot : j # index /\ preloads[j] = s
        BY <1>4, <3>1 DEF RemoveShift, KeptInv, IndexIsSpare
      <4>2. CASE index > 0 /\ index + 1 = i
        <5>1. index \in Slot /\ index # i /\ index' = i
          BY <1>4, <4>2 DEF RemoveShift, Typed, ArrayTypeOK, Slot
        <5>2. preloads' = [preloads EXCEPT ![index] = preloads[i]]
          BY <1>4, <4>2 DEF RemoveShift
        <5>3. CASE j = i
          BY <4>1, <5>1, <5>2, <5>3 DEF Typed, ArrayTypeOK
        <5>4. CASE j # i
          BY <4>1, <5>1, <5>2, <5>4 DEF Typed, ArrayTypeOK
        <5>5. QED BY <5>3, <5>4
      <4>3. CASE ~(index > 0 /\ index + 1 = i)
        BY <1>4, <4>1, <4>3 DEF RemoveShift
      <4>4. QED BY <4>2, <4>3
    <3>2. index' > 0 => index' + 1 = i'
      BY <1>4 DEF RemoveShift, KeptInv, IndexIsSpare, Typed, ArrayTypeOK, Slot
    <3>3. QED BY <1>4, <3>1, <3>2 DEF RemoveShift, IndexIsSpare, Held
  <2>2. OthersKept'
    BY <1>4, <2>1 DEF RemoveShift, IndexIsSpare, OthersKept, Held
  <2>3. QED BY <2>1, <2>2 DEF KeptInv
<1>5. CASE RemoveReturn
  BY <1>5 DEF RemoveReturn, KeptInv, OthersKept, IndexIsSpare, Held
<1>6. CASE UNCHANGED preloadsVars
  BY <1>6 DEF preloadsVars, KeptInv, OthersKept, IndexIsSpare, Held
<1>7. QED BY <1>1, <1>2, <1>3, <1>4, <1>5, <1>6 DEF PreloadsNext

(* OthersKeptCorrect: no step of a removal loses another library from the  *)
(* array, whatever duplicates and null slots it started with.              *)
THEOREM OthersKeptCorrect == PreloadsSpec => []OthersKept
<1>1. PreloadsInit => KeptInv
  BY DEF PreloadsInit, KeptInv, OthersKept, IndexIsSpare, Held
<1>2. KeptInv => OthersKept
  BY DEF KeptInv
<1>3. QED BY <1>1, <1>2, KeptStep, TypedAlways, PTL DEF PreloadsSpec

-----------------------------------------------------------------------------
(***************************************************************************)
(* The part of the array the loop has passed is free of the library, the   *)
(* part ahead is as it was.                                                *)
(***************************************************************************)
LoopInv ==
  pc = "remove" =>
    /\ index < i
    /\ \A j \in Slot : j < i => preloads[j] # asked
    /\ \A j \in Slot : j >= i => preloads[j] = before[j]

LEMMA LoopStep == Typed /\ LoopInv /\ [PreloadsNext]_preloadsVars => LoopInv'
<1> SUFFICES ASSUME Typed, LoopInv, [PreloadsNext]_preloadsVars PROVE LoopInv'
  OBVIOUS
<1> USE PreloadsAssumption DEF LoopInv, Typed, ArrayTypeOK
<1>1. ASSUME NEW s \in Library, AddToPreloads(s) PROVE LoopInv'
  BY <1>1 DEF AddToPreloads
<1>2. ASSUME NEW s \in Library, RemoveFromPreloads(s) PROVE LoopInv'
  BY <1>2 DEF RemoveFromPreloads, Slot
<1>3. CASE RemoveMatch
  BY <1>3 DEF RemoveMatch, Slot
<1>4. CASE RemoveShift
  <2>1. CASE index > 0 /\ index + 1 = i
    BY <1>4, <2>1 DEF RemoveShift, Slot
  <2>2. CASE ~(index > 0 /\ index + 1 = i)
    BY <1>4, <2>2 DEF RemoveShift, Slot
  <2>3. QED BY <2>1, <2>2
<1>5. CASE RemoveReturn
  BY <1>5 DEF RemoveReturn
<1>6. CASE UNCHANGED preloadsVars
  BY <1>6 DEF preloadsVars
<1>7. QED BY <1>1, <1>2, <1>3, <1>4, <1>5, <1>6 DEF PreloadsNext

LEMMA ReturnIsClean ==
  ASSUME Typed, LoopInv, PreloadsNext, pc = "remove", pc' = "idle",
         Packed(before)
  PROVE  asked \notin Held(preloads')
<1>1. RemoveReturn
  BY DEF PreloadsNext, AddToPreloads, RemoveFromPreloads, RemoveMatch,
         RemoveShift
<1>2. ASSUME NEW j \in Slot PROVE preloads[j] # asked
  <2>1. CASE j < i
    BY <2>1 DEF LoopInv
  <2>2. CASE j >= i
    <3>1. i \in Slot /\ preloads[i] = Null
      BY <1>1, <2>2, PreloadsAssumption
         DEF RemoveReturn, Slot, Typed, ArrayTypeOK
    <3>2. before[i] = Null /\ preloads[j] = before[j]
      BY <2>2, <3>1 DEF LoopInv, Slot
    <3>3. before[j] = Null
      BY <2>2, <3>1, <3>2 DEF Packed, Slot
    <3>4. QED BY <3>2, <3>3, PreloadsAssumption DEF Typed
  <2>3. QED BY <2>1, <2>2, PreloadsAssumption DEF Typed, ArrayTypeOK, Slot
<1>3. QED BY <1>1, <1>2 DEF RemoveReturn, Held

(* RemovedIsGoneCorrect: whatever the length of the array, a removal from  *)
(* a packed one leaves no copy of the library.                             *)
THEOREM RemovedIsGoneCorrect == PreloadsSpec => RemovedIsGone
<1>1. PreloadsInit => LoopInv
  BY DEF PreloadsInit, LoopInv
<1>2. Typed /\ LoopInv /\ [PreloadsNext]_preloadsVars
        => [pc = "remove" /\ pc' = "idle" /\ Packed(before)
              => asked \notin Held(preloads')]_preloadsVars
  BY ReturnIsClean
<1>3. QED
  BY <1>1, <1>2, LoopStep, TypedAlways, PTL DEF PreloadsSpec, RemovedIsGone
=============================================================================
