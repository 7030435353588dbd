---------------------------- MODULE RelinkProofs ----------------------------
(***************************************************************************)
(* What Relink promises, for any threads, libraries, mappings and groups,  *)
(* with every mprotect free to fail.                                       *)
(***************************************************************************)
EXTENDS Relink, TLAPS

LEMMA NameTypes ==
  ASSUME NEW s \in Seq(Lib \cup {NoLib}), NEW i \in DOMAIN s
  PROVE  s[i] \in Lib \cup {NoLib}
OBVIOUS

LEMMA MapTypes ==
  ASSUME NEW s \in Seq(Mapping)
  PROVE  /\ DOMAIN s = 1 .. Len(s)
         /\ Len(s) \in Nat
         /\ \A i \in DOMAIN s : s[i] \in Mapping
OBVIOUS

(* A local group is empty, or its library comes first.                     *)
LEMMA GroupTypes ==
  ASSUME NEW l \in Lib
  PROVE  /\ DOMAIN Local(l) = 1 .. Len(Local(l))
         /\ Len(Local(l)) \in Nat
         /\ \A i \in DOMAIN Local(l) : Local(l)[i] \in Lib
         /\ Local(l) # <<>> => Local(l)[1] = l
<1>1. Lost \in SUBSET Lib
  BY DEF Lost
<1>2. Local(l) \in Seq(Lib)
  BY <1>1, RelinkAssumption DEF Local
<1>3. Local(l) # <<>> => Local(l)[1] = l
  BY <1>1, RelinkAssumption DEF Local
<1>4. QED BY <1>2, <1>3

-----------------------------------------------------------------------------
(* A link is a system relink's, and what follows the loop is no hook's.    *)
CallInv ==
  \A t \in Thread :
     /\ pc[t] \in {"loop", "returned", "lock", "read", "link"} => call[t] # "hook"
     /\ pc[t] = "link" => call[t] = "system"
     /\ pc[t] = "write" => call[t] # "system"

TypeInv == TypeOK /\ CallInv

LEMMA TypeStep == TypeInv /\ [Next]_vars => TypeInv'
<1> SUFFICES ASSUME TypeInv, [Next]_vars PROVE TypeInv'
  OBVIOUS
<1> USE DEF TypeInv, TypeOK, CallInv, Labels, Goto
<1>0. CASE UNCHANGED vars
  BY <1>0 DEF vars, request, session
<1>1. ASSUME NEW t \in Thread, NEW c \in Calls \ {"hook"}, NEW s \in NameLists,
             Begin(t, c, s)
      PROVE  TypeInv'
  BY <1>1, RelinkAssumption DEF Begin, session
<1>2. ASSUME NEW t \in Thread, BeginHook(t) PROVE TypeInv'
  <2>1. <<Table>> \in Seq(Mapping)
    BY RelinkAssumption
  <2>2. {<<Table>>[i] : i \in DOMAIN <<Table>>} \cap writable \in SUBSET Mapping
    OBVIOUS
  <2> HIDE DEF TypeInv
  <2>3. TypeOK'
    BY <1>2, <2>1, <2>2 DEF BeginHook, Opened, TypeInv
  <2>4. CallInv'
    BY <1>2 DEF BeginHook, Opened, TypeInv
  <2>5. QED BY <2>3, <2>4 DEF TypeInv
<1>3. ASSUME NEW t \in Thread, NextName(t) PROVE TypeInv'
  <2>1. next[t] \in DOMAIN asked[t] => asked[t][next[t]] \in Lib \cup {NoLib}
    BY NameTypes
  <2>5. next[t] + 1 \in Nat \ {0}
    OBVIOUS
  <2>2. CASE next[t] \in DOMAIN asked[t]
    <3>1. next' \in [Thread -> Nat \ {0}]
      BY <1>3, <2>5, <2>2 DEF NextName
    <3>2. UNCHANGED <<lp64, mutex, writable, flags, call, asked, success, maps,
                      was, marked, k, failed, gaveUp, relocated>>
      BY <1>3 DEF NextName, session
    <3>3. CASE asked[t][next[t]] = NoLib
      <4>1. UNCHANGED <<pc, lib>>
        BY <1>3, <2>2, <3>3 DEF NextName
      <4>2. QED BY <3>1, <3>2, <4>1
    <3>4. CASE asked[t][next[t]] # NoLib
      <4>1. /\ pc[t] = "loop" /\ pc' = [pc EXCEPT ![t] = "lock"]
            /\ lib' = [lib EXCEPT ![t] = asked[t][next[t]]]
        BY <1>3, <2>2, <3>4 DEF NextName
      <4>2. asked[t][next[t]] \in Lib
        BY <2>1, <2>2, <3>4
      <4>3. QED BY <3>1, <3>2, <4>1, <4>2
    <3>5. QED BY <3>3, <3>4
  <2>3. CASE next[t] \notin DOMAIN asked[t]
    BY <1>3, <2>3 DEF NextName, session
  <2>4. QED BY <2>2, <2>3
<1>4. ASSUME NEW t \in Thread, Return(t) PROVE TypeInv'
  BY <1>4 DEF Return, session
<1>5. ASSUME NEW t \in Thread, Lock(t) PROVE TypeInv'
  BY <1>5 DEF Lock, request, session
<1>6. ASSUME NEW t \in Thread, NEW r \in BOOLEAN, Leave(t, r), pc[t] # "idle",
             call[t] # "hook" => pc[t] \notin {"idle", "loop", "returned"},
             failed' \in SUBSET Mapping,
             UNCHANGED <<lp64, writable, flags, request, relocated>>
      PROVE  TypeInv'
  <2>1. TypeOK'
    <3>1. /\ mutex' \in Thread \cup {NoThread}
          /\ pc' \in [Thread -> Labels]
          /\ success' \in [Thread -> BOOLEAN]
          /\ gaveUp' \in SUBSET Lib
      BY <1>6 DEF Leave
    <3>2. /\ <<>> \in Seq(Mapping)
          /\ 1 \in Nat \ {0}
      OBVIOUS
    <3>3. /\ maps' \in [Thread -> Seq(Mapping)]
          /\ k' \in [Thread -> Nat \ {0}]
          /\ was' \in [Thread -> SUBSET Mapping]
          /\ marked' \in [Thread -> SUBSET Mapping]
      BY <1>6, <3>2 DEF Leave, Closed
    <3>4. lib' \in [Thread -> Lib \cup {NoLib}]
      BY <1>6 DEF Leave, Closed
    <3>5. \A u \in Thread :
            pc'[u] \notin {"idle", "loop", "returned"} /\ call'[u] # "hook" =>
              lib'[u] \in Lib
      BY <1>6 DEF Leave, Closed, request
    <3>6. QED BY <1>6, <3>1, <3>3, <3>4, <3>5 DEF request
  <2>2. CallInv'
    BY <1>6 DEF Leave, Closed, request
  <2>3. QED BY <2>1, <2>2
<1>7. ASSUME NEW t \in Thread, ReadMaps(t) PROVE TypeInv'
  <2>1. CASE Leave(t, FALSE)
    BY <1>6, <1>7, <2>1 DEF ReadMaps
  <2>2. CASE Opened(t, Maps[lib[t]]) /\ UNCHANGED <<mutex, lib, success, gaveUp>>
    <3>1. Maps[lib[t]] \in Seq(Mapping)
      BY <1>7, RelinkAssumption DEF ReadMaps
    <3>2. QED BY <1>7, <2>2, <3>1 DEF ReadMaps, Opened, request
  <2>3. QED BY <1>7, <2>1, <2>2 DEF ReadMaps
<1>8. ASSUME NEW t \in Thread, UnlockPage(t) PROVE TypeInv'
  <2>1. maps[t][k[t]] \in Mapping
    BY <1>8, MapTypes DEF UnlockPage
  <2>2. k[t] + 1 \in Nat \ {0}
    OBVIOUS
  <2>3. k' \in [Thread -> Nat \ {0}]
    BY <1>8, <2>2 DEF UnlockPage
  <2>4. writable' \in SUBSET Mapping /\ marked' \in [Thread -> SUBSET Mapping]
    <3>1. CASE maps[t][k[t]] \in was[t]
      BY <1>8, <2>1, <3>1 DEF UnlockPage
    <3>2. CASE maps[t][k[t]] \notin was[t]
      <4>1. marked[t] \cup {maps[t][k[t]]} \in SUBSET Mapping
        BY <2>1
      <4>2. writable' = writable \cup {maps[t][k[t]]}
            /\ marked' = [marked EXCEPT ![t] = marked[t] \cup {maps[t][k[t]]}]
        BY <1>8, <3>2 DEF UnlockPage
      <4>3. QED BY <2>1, <4>1, <4>2
    <3>3. QED BY <3>1, <3>2
  <2>5. UNCHANGED <<lp64, mutex, flags, pc, call, asked, next, lib, success,
                    maps, was, failed, gaveUp, relocated>>
    BY <1>8 DEF UnlockPage, request
  <2>6. QED BY <2>3, <2>4, <2>5
<1>9. ASSUME NEW t \in Thread, UnlockFails(t) PROVE TypeInv'
  <2>1. PagesOf(t) \subseteq Mapping
    BY MapTypes DEF PagesOf
  <2>2. CASE call[t] = "system"
    <3>1. PICK garbage \in SUBSET {maps[t][i] : i \in k[t] .. Len(maps[t])} :
              marked' = [marked EXCEPT ![t] = @ \cup garbage]
      BY <1>9, <2>2 DEF UnlockFails
    <3>2. \A i \in k[t] .. Len(maps[t]) : maps[t][i] \in Mapping
      <4>1. \A i \in k[t] .. Len(maps[t]) : i \in 1 .. Len(maps[t])
        BY MapTypes
      <4>2. QED BY <4>1, MapTypes
    <3>3. garbage \subseteq Mapping
      <4>1. \A m \in garbage : \E i \in k[t] .. Len(maps[t]) : m = maps[t][i]
        BY <3>1
      <4> HIDE DEF TypeInv, TypeOK
      <4>2. QED BY <3>2, <4>1
    <3>4. marked' \in [Thread -> SUBSET Mapping] /\ failed' \in SUBSET Mapping
      <4>1. marked[t] \cup garbage \in SUBSET Mapping
        BY <3>3
      <4>2. marked' \in [Thread -> SUBSET Mapping]
        BY <3>1, <4>1
      <4>3. failed' \in SUBSET Mapping
        BY <1>9, <2>1 DEF UnlockFails
      <4>4. QED BY <4>2, <4>3
    <3>5. k' \in [Thread -> Nat \ {0}]
      <4>1. 1 \in Nat \ {0}
        OBVIOUS
      <4>2. QED BY <1>9, <2>2, <4>1 DEF UnlockFails
    <3>6. pc[t] = "unlock" /\ pc' = [pc EXCEPT ![t] = "link"]
          /\ UNCHANGED <<lp64, mutex, lib, success, gaveUp, maps, was, writable,
                         flags, call, asked, next, relocated>>
      BY <1>9, <2>2 DEF UnlockFails, request
    <3>7. QED BY <2>2, <3>4, <3>5, <3>6
  <2>3. CASE call[t] # "system"
    BY <1>6, <1>9, <2>1, <2>3 DEF UnlockFails
  <2>4. QED BY <2>2, <2>3
<1>10. ASSUME NEW t \in Thread, UnlockDone(t) PROVE TypeInv'
  BY <1>10 DEF UnlockDone, request, session
<1>11. ASSUME NEW t \in Thread, Write(t) PROVE TypeInv'
  BY <1>11 DEF Write, request, session
<1>12. ASSUME NEW t \in Thread, LinkSkips(t) PROVE TypeInv'
  <2>1. k[t] + 1 \in Nat \ {0}
    OBVIOUS
  <2>2. k' \in [Thread -> Nat \ {0}]
    BY <1>12, <2>1 DEF LinkSkips
  <2>3. UNCHANGED <<lp64, mutex, writable, flags, pc, call, asked, next, lib,
                    success, maps, was, marked, failed, gaveUp, relocated>>
    BY <1>12 DEF LinkSkips, request, session
  <2>4. QED BY <2>2, <2>3
<1>13. ASSUME NEW t \in Thread, LinkImage(t) PROVE TypeInv'
  <2>1. k[t] + 1 \in Nat \ {0}
    OBVIOUS
  <2>2. flags' \in [Lib -> SUBSET {"linked", "image", "gnu", "new"}]
    BY <1>13 DEF LinkImage
  <2>3. k' \in [Thread -> Nat \ {0}]
    BY <1>13, <2>1 DEF LinkImage
  <2>4. relocated' \in [Thread -> SUBSET Lib]
    <3>1. lib[t] \in Lib /\ k[t] \in DOMAIN Local(lib[t])
      BY <1>13 DEF LinkImage, Links, Visiting
    <3>2. Visited(t) \in Lib
      BY <3>1, GroupTypes DEF Visited
    <3>3. relocated[t] \cup {Visited(t)} \in SUBSET Lib
      BY <3>2
    <3>4. QED BY <1>13, <3>3 DEF LinkImage
  <2>5. UNCHANGED <<lp64, mutex, writable, pc, call, asked, next, lib, success,
                    maps, was, marked, failed, gaveUp>>
    BY <1>13 DEF LinkImage, request, session
  <2>6. QED BY <2>2, <2>3, <2>4, <2>5
<1>14. ASSUME NEW t \in Thread, LinkFails(t) PROVE TypeInv'
  <2>1. lib[t] \in Lib
    BY <1>14 DEF LinkFails, Visiting
  <2>2. gaveUp' \in SUBSET Lib /\ success' \in [Thread -> BOOLEAN]
    BY <1>14, <2>1 DEF LinkFails, Linked
  <2>3. 1 \in Nat \ {0}
    OBVIOUS
  <2>4. k' \in [Thread -> Nat \ {0}] /\ pc' = [pc EXCEPT ![t] = "recover"]
        /\ pc[t] = "link"
        /\ UNCHANGED <<lp64, mutex, writable, flags, call, asked, next, lib,
                       maps, was, marked, failed, relocated>>
    BY <1>14, <2>3 DEF LinkFails, Linked, Visiting, request, session
  <2>5. QED BY <2>2, <2>4
<1>15. ASSUME NEW t \in Thread, LinkDone(t) PROVE TypeInv'
  <2>1. flags' \in [Lib -> SUBSET {"linked", "image", "gnu", "new"}]
    BY <1>15 DEF LinkDone
  <2>2. 1 \in Nat \ {0}
    OBVIOUS
  <2>4. k' \in [Thread -> Nat \ {0}]
    BY <1>15, <2>2 DEF LinkDone, Linked
  <2>5. success' \in [Thread -> BOOLEAN] /\ gaveUp' = gaveUp
    BY <1>15 DEF LinkDone, Linked
  <2>6. pc' = [pc EXCEPT ![t] = "recover"] /\ pc[t] = "link"
        /\ UNCHANGED <<lp64, mutex, writable, call, asked, next, lib, maps,
                       was, marked, failed, relocated>>
    BY <1>15 DEF LinkDone, Linked, request, session
  <2>7. QED BY <2>1, <2>4, <2>5, <2>6
<1>16. ASSUME NEW t \in Thread, RecoverPage(t) PROVE TypeInv'
  <2>1. maps[t][k[t]] \in Mapping
    BY <1>16, MapTypes DEF RecoverPage
  <2>2. k[t] + 1 \in Nat \ {0}
    OBVIOUS
  <2>3. k' \in [Thread -> Nat \ {0}]
    BY <1>16, <2>2 DEF RecoverPage
  <2>4. writable' \in SUBSET Mapping /\ marked' \in [Thread -> SUBSET Mapping]
    <3>1. CASE maps[t][k[t]] \in marked[t]
      <4>1. marked[t] \ {maps[t][k[t]]} \in SUBSET Mapping
        OBVIOUS
      <4>2. marked' = [marked EXCEPT ![t] = marked[t] \ {maps[t][k[t]]}]
        BY <1>16, <3>1 DEF RecoverPage
      <4>3. writable' \subseteq writable \cup {maps[t][k[t]]}
        BY <1>16, <3>1 DEF RecoverPage
      <4>4. QED BY <2>1, <4>1, <4>2, <4>3
    <3>2. CASE maps[t][k[t]] \notin marked[t]
      BY <1>16, <2>1, <3>2 DEF RecoverPage
    <3>3. QED BY <3>1, <3>2
  <2>5. UNCHANGED <<lp64, mutex, flags, pc, call, asked, next, lib, success,
                    maps, was, failed, gaveUp, relocated>>
    BY <1>16 DEF RecoverPage, request
  <2>6. QED BY <2>3, <2>4, <2>5
<1>17. ASSUME NEW t \in Thread, Finish(t) PROVE TypeInv'
  <2>1. PagesOf(t) \subseteq Mapping
    BY MapTypes DEF PagesOf
  <2>2. failed' \in SUBSET Mapping
    BY <1>17, <2>1 DEF Finish
  <2>3. QED BY <1>6, <1>17, <2>2 DEF Finish
<1>18. QED
  BY <1>0, <1>1, <1>2, <1>3, <1>4, <1>5, <1>7, <1>8, <1>9, <1>10, <1>11,
     <1>12, <1>13, <1>14, <1>15, <1>16, <1>17 DEF Next, Step

(* The type invariant: every pointer and index of a call is in range.      *)
THEOREM TypeCorrect == Spec => []TypeOK
<1>1. Init => TypeInv
  <2>1. <<>> \in Seq(Mapping) /\ 1 \in Nat \ {0}
    OBVIOUS
  <2>2. QED
    BY <2>1, RelinkAssumption DEF Init, TypeInv, TypeOK, CallInv, Labels
<1>2. TypeInv /\ [Next]_vars => TypeInv'
  BY TypeStep
<1>3. TypeInv => TypeOK
  BY DEF TypeInv
<1>4. QED BY <1>1, <1>2, <1>3, PTL DEF Spec

-----------------------------------------------------------------------------
(* What a thread does is its own, but for the mutex, the protection of the *)
(* pages and the flags.                                                    *)
Act(u) ==
  \/ \E c \in Calls \ {"hook"}, names \in NameLists : Begin(u, c, names)
  \/ BeginHook(u)
  \/ Step(u)
  \/ Return(u)

Same(t) ==
  /\ pc'[t] = pc[t] /\ call'[t] = call[t] /\ asked'[t] = asked[t]
  /\ next'[t] = next[t] /\ lib'[t] = lib[t] /\ success'[t] = success[t]
  /\ maps'[t] = maps[t] /\ was'[t] = was[t] /\ marked'[t] = marked[t]
  /\ k'[t] = k[t] /\ relocated'[t] = relocated[t]

Holds(t) ==
  /\ pc[t] \in {"read", "unlock", "write", "link", "recover"}
  /\ call[t] # "hook"

(* The thread at work on a library is the one that holds g_dl_mutex.       *)
MutexInv == \A t \in Thread : Holds(t) <=> mutex = t

(* A helper describes the mappings of the library, or that of the table.   *)
PagesInv ==
  \A t \in Thread : Open(t) =>
     maps[t] = IF call[t] = "hook" THEN <<Table>> ELSE Maps[lib[t]]

LEMMA Steps == [Next]_vars => UNCHANGED vars \/ \E u \in Thread : Act(u)
BY DEF Next, Act

LEMMA Others ==
  ASSUME TypeInv, NEW u \in Thread, Act(u), NEW t \in Thread, t # u
  PROVE  Same(t)
<1> USE DEF TypeInv, TypeOK, Same, Goto
<1>1. ASSUME NEW c \in Calls, NEW s \in NameLists, Begin(u, c, s) PROVE Same(t)
  BY <1>1 DEF Begin, session
<1>2. CASE BeginHook(u)
  BY <1>2 DEF BeginHook, Opened
<1>3. CASE NextName(u)
  BY <1>3 DEF NextName, session
<1>4. CASE Return(u)
  BY <1>4 DEF Return, session
<1>5. CASE Lock(u)
  BY <1>5 DEF Lock, session, request
<1>6. ASSUME NEW r \in BOOLEAN, Leave(u, r), UNCHANGED <<request, relocated>>
      PROVE  Same(t)
  BY <1>6 DEF Leave, Closed, request
<1>7. CASE ReadMaps(u)
  <2>1. CASE Leave(u, FALSE)
    BY <1>6, <1>7, <2>1 DEF ReadMaps
  <2>2. CASE Opened(u, Maps[lib[u]]) /\ UNCHANGED <<mutex, lib, success, gaveUp>>
    BY <1>7, <2>2 DEF ReadMaps, Opened, request
  <2>3. QED BY <1>7, <2>1, <2>2 DEF ReadMaps
<1>8. CASE UnlockPage(u)
  BY <1>8 DEF UnlockPage, request
<1>9. CASE UnlockFails(u)
  <2>1. CASE call[u] = "system"
    BY <1>9, <2>1 DEF UnlockFails, request
  <2>2. CASE call[u] # "system"
    BY <1>6, <1>9, <2>2 DEF UnlockFails
  <2>3. QED BY <2>1, <2>2
<1>10. CASE UnlockDone(u)
  BY <1>10 DEF UnlockDone, request, session
<1>11. CASE Write(u)
  BY <1>11 DEF Write, request, session
<1>12. CASE LinkSkips(u)
  BY <1>12 DEF LinkSkips, request, session
<1>13. CASE LinkImage(u)
  BY <1>13 DEF LinkImage, request, session
<1>14. CASE LinkFails(u)
  BY <1>14 DEF LinkFails, Linked, request, session
<1>15. CASE LinkDone(u)
  BY <1>15 DEF LinkDone, Linked, request, session
<1>16. CASE RecoverPage(u)
  BY <1>16 DEF RecoverPage, request
<1>17. CASE Finish(u)
  BY <1>6, <1>17 DEF Finish
<1>18. QED
  BY <1>1, <1>2, <1>3, <1>4, <1>5, <1>7, <1>8, <1>9, <1>10, <1>11, <1>12,
     <1>13, <1>14, <1>15, <1>16, <1>17 DEF Act, Step

LEMMA MutexOthers ==
  ASSUME MutexInv, PagesInv, NEW u \in Thread,
         \A t \in Thread : t # u => Same(t),
         Holds(u)' <=> mutex' = u,
         mutex' = mutex \/ (mutex' = u /\ mutex = NoThread)
                        \/ (mutex' = NoThread /\ mutex = u),
         Open(u)' => maps'[u] = IF call'[u] = "hook" THEN <<Table>>
                                                    ELSE Maps[lib'[u]]
  PROVE  MutexInv' /\ PagesInv'
<1>1. ASSUME NEW t \in Thread, t # u PROVE Holds(t)' <=> mutex' = t
  <2>1. Holds(t)' <=> Holds(t)
    BY <1>1 DEF Same, Holds
  <2>2. mutex' = t <=> mutex = t
    BY <1>1, RelinkAssumption
  <2>3. QED BY <2>1, <2>2 DEF MutexInv
<1>2. ASSUME NEW t \in Thread, t # u, Open(t)'
      PROVE  maps'[t] = IF call'[t] = "hook" THEN <<Table>> ELSE Maps[lib'[t]]
  BY <1>2 DEF Same, PagesInv, Open
<1>3. QED BY <1>1, <1>2 DEF MutexInv, PagesInv

LEMMA MutexStep ==
  ASSUME TypeInv, MutexInv, PagesInv, NEW u \in Thread, Act(u)
  PROVE  MutexInv' /\ PagesInv'
<1>0. \A t \in Thread : t # u => Same(t)
  BY Others
<1>19. ASSUME /\ Holds(u)' <=> mutex' = u
              /\ mutex' = mutex \/ (mutex' = u /\ mutex = NoThread)
                               \/ (mutex' = NoThread /\ mutex = u)
              /\ Open(u)' => maps'[u] = IF call'[u] = "hook" THEN <<Table>>
                                                         ELSE Maps[lib'[u]]
       PROVE  MutexInv' /\ PagesInv'
  BY <1>0, <1>19, MutexOthers
<1> USE RelinkAssumption DEF TypeInv, TypeOK, CallInv, MutexInv, PagesInv,
        Holds, Open, Goto
<1>1. ASSUME NEW c \in Calls \ {"hook"}, NEW s \in NameLists, Begin(u, c, s)
      PROVE  MutexInv' /\ PagesInv'
  BY <1>19, <1>1 DEF Begin, session
<1>2. CASE BeginHook(u)
  <2>1. /\ ~Holds(u) /\ ~Holds(u)'
        /\ call'[u] = "hook" /\ maps'[u] = <<Table>> /\ mutex' = mutex
    BY <1>2 DEF BeginHook, Opened
  <2>2. QED BY <1>19, <2>1
<1>3. CASE NextName(u)
  <2>1. ~Holds(u) /\ ~Holds(u)' /\ ~Open(u)' /\ mutex' = mutex
    BY <1>3 DEF NextName
  <2>2. QED BY <1>19, <2>1
<1>4. CASE Return(u)
  BY <1>19, <1>4 DEF Return, session
<1>5. CASE Lock(u)
  BY <1>19, <1>5 DEF Lock, session, request
<1>6. ASSUME NEW r \in BOOLEAN, Leave(u, r), UNCHANGED request,
             pc[u] \in {"read", "unlock", "recover"}
      PROVE  MutexInv' /\ PagesInv'
  <2>1. CASE call[u] = "hook"
    BY <1>19, <1>6, <2>1 DEF Leave, request
  <2>2. CASE call[u] # "hook"
    BY <1>19, <1>6, <2>2 DEF Leave, request
  <2>3. QED BY <2>1, <2>2
<1>7. CASE ReadMaps(u)
  <2>1. CASE Leave(u, FALSE)
    BY <1>6, <1>7, <2>1 DEF ReadMaps
  <2>2. CASE Opened(u, Maps[lib[u]]) /\ UNCHANGED <<mutex, lib, success, gaveUp>>
    <3>1. /\ Holds(u) /\ Holds(u)' /\ call'[u] # "hook" /\ lib'[u] = lib[u]
          /\ maps'[u] = Maps[lib[u]] /\ mutex' = mutex
      BY <1>7, <2>2 DEF ReadMaps, Opened, request
    <3>2. QED BY <1>19, <3>1
  <2>3. QED BY <1>7, <2>1, <2>2 DEF ReadMaps
<1>8. CASE UnlockPage(u)
  BY <1>19, <1>8 DEF UnlockPage, request
<1>9. CASE UnlockFails(u)
  <2>1. CASE call[u] = "system"
    BY <1>19, <1>9, <2>1 DEF UnlockFails, request
  <2>2. CASE call[u] # "system"
    BY <1>6, <1>9, <2>2 DEF UnlockFails
  <2>3. QED BY <2>1, <2>2
<1>10. CASE UnlockDone(u)
  BY <1>19, <1>10 DEF UnlockDone, request, session
<1>11. CASE Write(u)
  BY <1>19, <1>11 DEF Write, request, session
<1>12. CASE LinkSkips(u)
  BY <1>19, <1>12 DEF LinkSkips, request, session
<1>13. CASE LinkImage(u)
  BY <1>19, <1>13 DEF LinkImage, request, session
<1>14. CASE LinkFails(u)
  BY <1>19, <1>14 DEF LinkFails, Linked, Visiting, request, session
<1>15. CASE LinkDone(u)
  BY <1>19, <1>15 DEF LinkDone, Linked, request, session
<1>16. CASE RecoverPage(u)
  BY <1>19, <1>16 DEF RecoverPage, request
<1>17. CASE Finish(u)
  BY <1>6, <1>17 DEF Finish
<1>18. QED
  BY <1>1, <1>2, <1>3, <1>4, <1>5, <1>7, <1>8, <1>9, <1>10, <1>11, <1>12,
     <1>13, <1>14, <1>15, <1>16, <1>17 DEF Act, Step

(* Only pages that u has open change, and they lose PROT_WRITE only in its *)
(* RecoveryPageProtect.  The histories grow.                               *)
LEMMA Protects ==
  ASSUME TypeInv, NEW u \in Thread, Act(u)
  PROVE  /\ writable' \subseteq writable \cup PagesOf(u)
         /\ writable \ writable' \subseteq PagesOf(u)
         /\ writable' # writable => Open(u)
         /\ failed \subseteq failed'
         /\ gaveUp \subseteq gaveUp'
<1> USE DEF Open
<1>12. ASSUME NEW r \in BOOLEAN, Leave(u, r) PROVE gaveUp \subseteq gaveUp'
  BY <1>12 DEF Leave
<1>1. ASSUME NEW c \in Calls, NEW s \in NameLists, Begin(u, c, s)
      PROVE  UNCHANGED <<writable, failed, gaveUp>>
  BY <1>1 DEF Begin
<1>2. CASE BeginHook(u)
  BY <1>2 DEF BeginHook
<1>3. CASE NextName(u) \/ Return(u) \/ Lock(u)
  BY <1>3 DEF NextName, Return, Lock
<1>4. CASE ReadMaps(u)
  <2>1. UNCHANGED <<writable, failed>>
    BY <1>4 DEF ReadMaps
  <2>2. gaveUp \subseteq gaveUp'
    BY <1>4, <1>12 DEF ReadMaps
  <2>3. QED BY <2>1, <2>2
<1>5. CASE UnlockPage(u)
  <2>1. maps[u][k[u]] \in PagesOf(u)
    BY <1>5 DEF UnlockPage, PagesOf
  <2>2. QED BY <1>5, <2>1 DEF UnlockPage
<1>6. CASE UnlockFails(u)
  <2>1. writable' = writable /\ failed \subseteq failed'
    BY <1>6 DEF UnlockFails
  <2>2. gaveUp \subseteq gaveUp'
    <3>1. CASE call[u] = "system"
      BY <1>6, <3>1 DEF UnlockFails
    <3>2. CASE call[u] # "system"
      BY <1>6, <1>12, <3>2 DEF UnlockFails
    <3>3. QED BY <3>1, <3>2
  <2>3. QED BY <2>1, <2>2
<1>7. CASE UnlockDone(u) \/ Write(u) \/ LinkSkips(u) \/ LinkImage(u)
  BY <1>7 DEF UnlockDone, Write, LinkSkips, LinkImage
<1>8. CASE LinkFails(u) \/ LinkDone(u)
  BY <1>8 DEF LinkFails, LinkDone, Linked
<1>9. CASE RecoverPage(u)
  <2>1. maps[u][k[u]] \in PagesOf(u)
    BY <1>9 DEF RecoverPage, PagesOf
  <2>2. QED BY <1>9, <2>1 DEF RecoverPage
<1>10. CASE Finish(u)
  <2>1. writable' = writable /\ failed \subseteq failed'
    BY <1>10 DEF Finish
  <2>2. gaveUp \subseteq gaveUp'
    BY <1>10, <1>12 DEF Finish
  <2>3. QED BY <2>1, <2>2
<1>11. QED
  BY <1>1, <1>2, <1>3, <1>4, <1>5, <1>6, <1>7, <1>8, <1>9, <1>10 DEF Act, Step

-----------------------------------------------------------------------------
(* The pages that a relink has passed, and those it found writable, are    *)
(* writable; the page of the table alone may be taken away by a hook.      *)
PassedWritable(t) ==
  call[t] # "hook" =>
    /\ pc[t] = "unlock" =>
         /\ was[t] \subseteq writable \cup {Table}
         /\ \A i \in DOMAIN maps[t] : i < k[t] => maps[t][i] \in writable \cup {Table}
    /\ pc[t] = "write" => PagesOf(t) \subseteq writable \cup {Table}
    /\ pc[t] = "link" => PagesOf(t) \subseteq writable \cup {Table} \cup failed

WriteInv == \A t \in Thread : PassedWritable(t)

LEMMA OthersKeepPages ==
  ASSUME TypeInv, MutexInv, PagesInv, NEW u \in Thread, Act(u),
         NEW t \in Thread, t # u, Holds(t)
  PROVE  writable \subseteq writable' \cup {Table}
<1>1. ~Holds(u)
  BY DEF MutexInv
<1>2. CASE Open(u)
  <2>1. maps[u] = <<Table>>
    BY <1>1, <1>2 DEF PagesInv, Holds, Open
  <2>2. PagesOf(u) = {Table}
    BY <2>1 DEF PagesOf
  <2>3. QED BY <2>2, Protects
<1>3. CASE ~Open(u)
  BY <1>3, Protects
<1>4. QED BY <1>2, <1>3

LEMMA WriteStep ==
  ASSUME TypeInv, MutexInv, PagesInv, WriteInv, NEW u \in Thread, Act(u)
  PROVE  WriteInv'
<1>1. ASSUME NEW t \in Thread, t # u PROVE PassedWritable(t)'
  <2>1. Same(t)
    BY <1>1, Others
  <2>2. CASE Holds(t)
    <3>1. writable \subseteq writable' \cup {Table} /\ failed \subseteq failed'
      BY <1>1, <2>2, OthersKeepPages, Protects
    <3>2. PagesOf(t)' = PagesOf(t)
      BY <2>1 DEF Same, PagesOf
    <3>3. QED BY <2>1, <3>1, <3>2 DEF WriteInv, PassedWritable, Same
  <2>3. CASE ~Holds(t)
    BY <2>1, <2>3 DEF PassedWritable, Same, Holds
  <2>4. QED BY <2>2, <2>3
<1>2. PassedWritable(u)'
  <2> USE DEF TypeInv, TypeOK, CallInv, Goto
  <2>1. ASSUME NEW c \in Calls, NEW s \in NameLists, Begin(u, c, s)
        PROVE  PassedWritable(u)'
    BY <2>1 DEF Begin, PassedWritable
  <2>2. CASE BeginHook(u)
    BY <2>2 DEF BeginHook, PassedWritable
  <2>3. CASE NextName(u) \/ Return(u) \/ Lock(u)
    <3>1. pc'[u] \in {"loop", "returned", "lock", "idle", "read"}
      BY <2>3 DEF NextName, Return, Lock
    <3>2. QED BY <3>1 DEF PassedWritable
  <2>4. ASSUME NEW r \in BOOLEAN, Leave(u, r) PROVE PassedWritable(u)'
    <3>1. pc'[u] \in {"loop", "idle"}
      BY <2>4 DEF Leave
    <3>2. QED BY <3>1 DEF PassedWritable
  <2>5. CASE ReadMaps(u)
    <3>1. CASE Leave(u, FALSE)
      BY <2>4, <3>1
    <3>2. CASE Opened(u, Maps[lib[u]])
      <4>1. /\ writable' = writable /\ pc'[u] = "unlock" /\ k'[u] = 1
            /\ was'[u] \subseteq writable /\ maps'[u] = Maps[lib[u]]
        BY <2>5, <3>2 DEF ReadMaps, Opened
      <4>2. Maps[lib[u]] \in Seq(Mapping)
        BY <2>5, RelinkAssumption DEF ReadMaps
      <4>3. \A i \in DOMAIN maps'[u] : ~(i < 1)
        BY <4>1, <4>2
      <4>4. QED BY <4>1, <4>3 DEF PassedWritable
    <3>3. QED BY <2>5, <3>1, <3>2 DEF ReadMaps
  <2>6. CASE UnlockPage(u)
    <3>1. PassedWritable(u)
      BY DEF WriteInv
    <3>2. /\ pc[u] = "unlock" /\ pc'[u] = "unlock" /\ call' = call
          /\ k'[u] = k[u] + 1 /\ maps' = maps /\ was' = was
          /\ k[u] \in DOMAIN maps[u] /\ DOMAIN maps[u] = 1 .. Len(maps[u])
          /\ k[u] \in Nat
      BY <2>6 DEF UnlockPage, request
    <3>3. writable \subseteq writable'
      BY <2>6 DEF UnlockPage
    <3>4. maps[u][k[u]] \in was[u] \cup writable'
      BY <2>6 DEF UnlockPage
    <3>5. ASSUME call[u] # "hook", NEW i \in DOMAIN maps[u], i < k[u] + 1
          PROVE  maps[u][i] \in writable' \cup {Table}
      <4>1. i < k[u] \/ i = k[u]
        BY <3>2, <3>5
      <4>2. QED BY <3>1, <3>2, <3>3, <3>4, <3>5, <4>1 DEF PassedWritable
    <3>6. call[u] # "hook" => was[u] \subseteq writable' \cup {Table}
      BY <3>1, <3>2, <3>3 DEF PassedWritable
    <3>7. QED BY <3>2, <3>5, <3>6 DEF PassedWritable
  <2>7. CASE UnlockFails(u)
    <3>1. CASE call[u] = "system"
      <4>1. /\ pc'[u] = "link" /\ maps' = maps /\ PagesOf(u) \subseteq failed'
        BY <2>7, <3>1 DEF UnlockFails
      <4>2. QED BY <4>1 DEF PassedWritable, PagesOf
    <3>2. CASE call[u] # "system"
      BY <2>4, <2>7, <3>2 DEF UnlockFails
    <3>3. QED BY <3>1, <3>2
  <2>8. CASE UnlockDone(u)
    <3>1. PassedWritable(u)
      BY DEF WriteInv
    <3>2. /\ pc[u] = "unlock" /\ pc'[u] \in {"write", "link"} /\ call' = call
          /\ maps' = maps /\ writable' = writable /\ failed' = failed
          /\ k[u] \notin DOMAIN maps[u] /\ DOMAIN maps[u] = 1 .. Len(maps[u])
          /\ Len(maps[u]) \in Nat /\ k[u] \in Nat \ {0}
      BY <2>8 DEF UnlockDone, request, session
    <3>3. \A i \in DOMAIN maps[u] : i < k[u]
      BY <3>2
    <3>4. call[u] # "hook" => PagesOf(u) \subseteq writable \cup {Table}
      BY <3>1, <3>2, <3>3 DEF PassedWritable, PagesOf
    <3>5. QED BY <3>2, <3>4 DEF PassedWritable, PagesOf
  <2>9. CASE LinkSkips(u) \/ LinkImage(u)
    <3>1. /\ pc[u] = "link" /\ pc' = pc /\ maps' = maps /\ call' = call
          /\ writable' = writable /\ failed' = failed
      BY <2>9 DEF LinkSkips, LinkImage, Links, Visiting, request, session
    <3>2. PassedWritable(u)
      BY DEF WriteInv
    <3>3. QED BY <3>1, <3>2 DEF PassedWritable, PagesOf
  <2>10. CASE Write(u) \/ LinkFails(u) \/ LinkDone(u) \/ RecoverPage(u)
    <3>1. pc'[u] = "recover"
      BY <2>10 DEF Write, LinkFails, LinkDone, Linked, RecoverPage
    <3>2. QED BY <3>1 DEF PassedWritable
  <2>11. CASE Finish(u)
    BY <2>4, <2>11 DEF Finish
  <2>12. QED
    BY <2>1, <2>2, <2>3, <2>5, <2>6, <2>7, <2>8, <2>9, <2>10, <2>11
    DEF Act, Step
<1>3. QED BY <1>1, <1>2 DEF WriteInv

-----------------------------------------------------------------------------
(* A library that is not linked is being relinked, or was given up.        *)
Relinks(t, l) ==
  pc[t] \in {"read", "unlock", "link"} /\ call[t] = "system" /\ lib[t] = l

LinkInv ==
  \A l \in Lib : \/ "linked" \in flags[l]
                 \/ l \in gaveUp
                 \/ \E t \in Thread : Relinks(t, l)

LEMMA StaysLinked ==
  ASSUME TypeInv, NEW u \in Thread, Act(u), NEW l \in Lib,
         "linked" \in flags[l]
  PROVE  "linked" \in flags'[l] \/ Relinks(u, l)'
<1> USE DEF TypeInv, TypeOK, CallInv, Goto
<1>1. CASE Lock(u)
  <2>1. CASE call[u] = "system" /\ lib[u] = l
    BY <1>1, <2>1 DEF Lock, Relinks, request
  <2>2. CASE ~(call[u] = "system" /\ lib[u] = l)
    BY <1>1, <2>2 DEF Lock
  <2>3. QED BY <2>1, <2>2
<1>2. CASE LinkImage(u)
  BY <1>2 DEF LinkImage
<1>3. CASE LinkDone(u)
  BY <1>3 DEF LinkDone
<1>4. CASE UNCHANGED flags
  BY <1>4
<1>5. Lock(u) \/ LinkImage(u) \/ LinkDone(u) \/ UNCHANGED flags
  BY DEF Act, Step, Begin, BeginHook, Return, NextName, ReadMaps, UnlockPage,
         UnlockFails, UnlockDone, Write, LinkSkips, LinkFails, RecoverPage,
         Finish
<1>6. QED BY <1>1, <1>2, <1>3, <1>4, <1>5

LEMMA RelinkEnds ==
  ASSUME TypeInv, NEW u \in Thread, Act(u), NEW l \in Lib, Relinks(u, l)
  PROVE  "linked" \in flags'[l] \/ l \in gaveUp' \/ Relinks(u, l)'
<1> USE DEF TypeInv, TypeOK, Goto, Relinks
<1>1. ASSUME Leave(u, FALSE) PROVE l \in gaveUp'
  BY <1>1 DEF Leave
<1>2. CASE ReadMaps(u)
  <2>1. CASE Leave(u, FALSE)
    BY <1>1, <2>1
  <2>2. CASE Opened(u, Maps[lib[u]]) /\ UNCHANGED <<mutex, lib, success, gaveUp>>
    BY <1>2, <2>2 DEF ReadMaps, Opened, request
  <2>3. QED BY <1>2, <2>1, <2>2 DEF ReadMaps
<1>3. CASE UnlockPage(u) \/ LinkSkips(u) \/ LinkImage(u)
  <2>1. UNCHANGED <<pc, call, lib>>
    BY <1>3 DEF UnlockPage, LinkSkips, LinkImage, request
  <2>2. QED BY <2>1
<1>4. CASE UnlockFails(u)
  BY <1>4 DEF UnlockFails, request
<1>5. CASE UnlockDone(u)
  BY <1>5 DEF UnlockDone, request
<1>6. CASE LinkFails(u)
  BY <1>6 DEF LinkFails, Linked
<1>7. CASE LinkDone(u)
  BY <1>7 DEF LinkDone
<1>8. QED
  BY <1>2, <1>3, <1>4, <1>5, <1>6, <1>7
  DEF Act, Step, Begin, BeginHook, Return, NextName, Lock, Write, RecoverPage,
      Finish

LEMMA LinkStep ==
  ASSUME TypeInv, LinkInv, NEW u \in Thread, Act(u)
  PROVE  LinkInv'
<1> SUFFICES ASSUME NEW l \in Lib
             PROVE  "linked" \in flags'[l] \/ l \in gaveUp'
                      \/ \E t \in Thread : Relinks(t, l)'
  BY DEF LinkInv
<1>1. CASE "linked" \in flags[l]
  BY <1>1, StaysLinked
<1>2. CASE l \in gaveUp
  BY <1>2, Protects
<1>3. ASSUME NEW t \in Thread, Relinks(t, l), t # u PROVE Relinks(t, l)'
  BY <1>3, Others DEF Same, Relinks
<1>4. ASSUME Relinks(u, l)
      PROVE  "linked" \in flags'[l] \/ l \in gaveUp' \/ Relinks(u, l)'
  BY <1>4, RelinkEnds
<1>5. QED BY <1>1, <1>2, <1>3, <1>4 DEF LinkInv

-----------------------------------------------------------------------------
(* A page that has PROT_WRITE beyond its time is one that a helper will    *)
(* still put back: it has it marked, and has not passed it again.          *)
WillRestore(t, m) == Open(t) /\ m \in PagesOf(t) /\ m \in marked[t]

KnowsPage(t, m) ==
  Open(t) /\ m \in PagesOf(t) =>
    /\ m \in Writable0 => m \in was[t]
    /\ m \in marked[t] => m \notin was[t]

Accounted(m) ==
  /\ m \in Writable0 => m \in writable
  /\ m \in writable \ Writable0 => \E t \in Thread : WillRestore(t, m)
  /\ \A t \in Thread : KnowsPage(t, m)

RestoreInv == \A m \in Mapping \ failed : Accounted(m)

PassedUnmarked ==
  \A t \in Thread : pc[t] \in {"write", "recover"} =>
     \A i \in DOMAIN maps[t] : i < k[t] => maps[t][i] \notin marked[t]

LEMMA UnmarkedStep ==
  ASSUME TypeInv, PassedUnmarked, NEW u \in Thread, Act(u)
  PROVE  PassedUnmarked'
<1>1. ASSUME NEW t \in Thread, t # u, pc'[t] \in {"write", "recover"},
             NEW i \in DOMAIN maps'[t], i < k'[t]
      PROVE  maps'[t][i] \notin marked'[t]
  BY <1>1, Others DEF Same, PassedUnmarked
<1>2. ASSUME pc'[u] \in {"write", "recover"}, NEW i \in DOMAIN maps'[u], i < k'[u]
      PROVE  maps'[u][i] \notin marked'[u]
  <2> USE DEF TypeInv, TypeOK, Goto
  <2>1. CASE RecoverPage(u)
    <3>1. /\ pc[u] = "recover" /\ maps' = maps /\ k'[u] = k[u] + 1
          /\ k[u] \in DOMAIN maps[u] /\ DOMAIN maps[u] = 1 .. Len(maps[u])
          /\ k[u] \in Nat
      BY <2>1 DEF RecoverPage
    <3>2. marked'[u] \subseteq marked[u] /\ maps[u][k[u]] \notin marked'[u]
      BY <2>1 DEF RecoverPage
    <3>3. i < k[u] \/ i = k[u]
      BY <1>2, <3>1
    <3>4. QED BY <1>2, <3>1, <3>2, <3>3 DEF PassedUnmarked
  <2>2. CASE Write(u)
    <3>1. pc[u] = "write" /\ maps' = maps /\ k' = k
      BY <2>2 DEF Write, session
    <3>2. marked' = marked
      BY <2>2 DEF Write, session
    <3>3. QED BY <1>2, <3>1, <3>2 DEF PassedUnmarked
  <2>3. CASE LinkFails(u) \/ LinkDone(u) \/ UnlockDone(u)
    <3>1. k'[u] = 1 /\ maps' = maps
      BY <2>3 DEF LinkFails, LinkDone, Linked, UnlockDone, session
    <3>2. DOMAIN maps[u] = 1 .. Len(maps[u])
      OBVIOUS
    <3>3. QED BY <1>2, <3>1, <3>2
  <2>4. QED
    BY <1>2, <2>1, <2>2, <2>3
    DEF Act, Step, Begin, BeginHook, Return, NextName, Lock, ReadMaps, Opened,
        Leave, UnlockPage, UnlockFails, LinkSkips, LinkImage,
        Links, Visiting, Finish
<1>3. QED BY <1>1, <1>2 DEF PassedUnmarked

LEMMA RestoreStep ==
  ASSUME TypeInv, PassedUnmarked, RestoreInv, NEW u \in Thread, Act(u)
  PROVE  RestoreInv'
<1> SUFFICES ASSUME NEW m \in Mapping, m \notin failed'
             PROVE  Accounted(m)'
  BY DEF RestoreInv
<1>1. m \notin failed
  BY Protects
<1>2. /\ m \in Writable0 => m \in writable
      /\ m \in writable \ Writable0 => \E t \in Thread : WillRestore(t, m)
      /\ \A t \in Thread : KnowsPage(t, m)
  BY <1>1 DEF RestoreInv, Accounted
<1>3. ASSUME NEW t \in Thread, t # u
      PROVE  /\ KnowsPage(t, m)'
             /\ WillRestore(t, m) => WillRestore(t, m)'
  <2>1. Same(t)
    BY <1>3, Others
  <2>2. PagesOf(t)' = PagesOf(t) /\ Open(t)' = Open(t)
    BY <2>1 DEF Same, PagesOf, Open
  <2>3. QED BY <1>2, <2>1, <2>2 DEF Same, KnowsPage, WillRestore
<1>4. ASSUME /\ m \in Writable0 => m \in writable'
             /\ m \in writable' \ Writable0 =>
                  \/ WillRestore(u, m)'
                  \/ m \in writable /\ ~WillRestore(u, m)
             /\ KnowsPage(u, m)'
      PROVE  Accounted(m)'
  BY <1>2, <1>3, <1>4 DEF Accounted
<1>5. ASSUME writable' = writable, ~Open(u) \/ m \notin PagesOf(u), ~Open(u)'
      PROVE  Accounted(m)'
  BY <1>2, <1>4, <1>5 DEF WillRestore, KnowsPage
<1>6. ASSUME writable' = writable, Open(u), Open(u)', maps' = maps, was' = was,
             marked' = marked
      PROVE  Accounted(m)'
  <2>1. PagesOf(u)' = PagesOf(u)
    BY <1>6 DEF PagesOf
  <2>2. KnowsPage(u, m)' /\ (WillRestore(u, m) => WillRestore(u, m)')
    BY <1>2, <1>6, <2>1 DEF KnowsPage, WillRestore
  <2>3. QED BY <1>2, <1>4, <1>6, <2>2
<1>7. ASSUME NEW ms, Opened(u, ms), ~Open(u), writable' = writable
      PROVE  Accounted(m)'
  <2>1. /\ maps'[u] = ms /\ marked'[u] = {}
        /\ was'[u] = {ms[i] : i \in DOMAIN ms} \cap writable
    BY <1>7 DEF Opened, TypeInv, TypeOK
  <2>2. KnowsPage(u, m)'
    BY <1>2, <2>1 DEF KnowsPage, PagesOf
  <2>3. ~WillRestore(u, m)
    BY <1>7 DEF WillRestore
  <2>4. QED BY <1>2, <1>4, <1>7, <2>2, <2>3
<1>8. ASSUME NEW r \in BOOLEAN, Leave(u, r) PROVE ~Open(u)'
  BY <1>8 DEF Leave, Goto, Open, TypeInv, TypeOK
<1>9. CASE BeginHook(u)
  BY <1>7, <1>9 DEF BeginHook, Open
<1>10. CASE ReadMaps(u)
  <2>1. writable' = writable /\ ~Open(u)
    BY <1>10 DEF ReadMaps, Open
  <2>2. CASE Leave(u, FALSE)
    BY <1>5, <1>8, <2>1, <2>2
  <2>3. CASE Opened(u, Maps[lib[u]])
    BY <1>7, <2>1, <2>3
  <2>4. QED BY <1>10, <2>2, <2>3 DEF ReadMaps
<1>11. CASE UnlockPage(u)
  <2>1. /\ Open(u) /\ Open(u)' /\ maps' = maps /\ was' = was
        /\ maps[u][k[u]] \in PagesOf(u)
    BY <1>11 DEF UnlockPage, Open, PagesOf
  <2>2. PagesOf(u)' = PagesOf(u)
    BY <2>1 DEF PagesOf
  <2>3. CASE maps[u][k[u]] \in was[u]
    BY <1>6, <1>11, <2>1, <2>3 DEF UnlockPage
  <2>4. CASE maps[u][k[u]] \notin was[u]
    <3>1. /\ writable' = writable \cup {maps[u][k[u]]}
          /\ marked'[u] = marked[u] \cup {maps[u][k[u]]}
      BY <1>11, <2>4 DEF UnlockPage, TypeInv, TypeOK
    <3>2. KnowsPage(u, m)'
      BY <1>2, <2>1, <2>2, <2>4, <3>1 DEF KnowsPage
    <3>3. WillRestore(u, m) => WillRestore(u, m)'
      BY <2>1, <2>2, <3>1 DEF WillRestore
    <3>4. m = maps[u][k[u]] => WillRestore(u, m)'
      BY <2>1, <2>2, <3>1 DEF WillRestore
    <3>5. QED BY <1>2, <1>4, <3>1, <3>2, <3>3, <3>4
  <2>5. QED BY <2>3, <2>4
<1>12. CASE UnlockFails(u)
  <2>1. /\ m \notin PagesOf(u) /\ writable' = writable
        /\ maps' = maps \/ ~Open(u)'
    <3>1. CASE call[u] = "system"
      BY <1>12, <3>1 DEF UnlockFails
    <3>2. CASE call[u] # "system"
      BY <1>8, <1>12, <3>2 DEF UnlockFails
    <3>3. QED BY <3>1, <3>2
  <2>2. m \notin PagesOf(u)' \/ ~Open(u)'
    BY <2>1 DEF PagesOf
  <2>3. KnowsPage(u, m)' /\ ~WillRestore(u, m)
    BY <2>1, <2>2 DEF KnowsPage, WillRestore
  <2>4. QED BY <1>2, <1>4, <2>1, <2>3
<1>13. CASE UnlockDone(u) \/ Write(u) \/ LinkSkips(u) \/ LinkImage(u)
              \/ LinkFails(u) \/ LinkDone(u)
  <2>1. /\ Open(u) /\ Open(u)'
        /\ UNCHANGED <<writable, maps, was, marked>>
    BY <1>13 DEF UnlockDone, Write, LinkSkips, LinkImage, Links, LinkFails,
                 LinkDone, Linked, Visiting, Open, Goto, session, TypeInv, TypeOK
  <2>2. QED BY <1>6, <2>1
<1>14. CASE RecoverPage(u)
  <2>1. /\ Open(u) /\ Open(u)' /\ maps' = maps /\ was' = was
        /\ maps[u][k[u]] \in PagesOf(u)
    BY <1>14 DEF RecoverPage, Open, PagesOf
  <2>2. PagesOf(u)' = PagesOf(u)
    BY <2>1 DEF PagesOf
  <2>3. CASE maps[u][k[u]] \notin marked[u]
    BY <1>6, <1>14, <2>1, <2>3 DEF RecoverPage
  <2>4. CASE maps[u][k[u]] \in marked[u]
    <3>1. marked'[u] = marked[u] \ {maps[u][k[u]]}
      BY <1>14, <2>4 DEF RecoverPage, TypeInv, TypeOK
    <3>2. writable' = IF maps[u][k[u]] \in was[u]
                        THEN writable \cup {maps[u][k[u]]}
                        ELSE writable \ {maps[u][k[u]]}
      BY <1>14, <2>4 DEF RecoverPage
    <3>3. KnowsPage(u, m)'
      BY <1>2, <2>1, <2>2, <3>1 DEF KnowsPage
    <3>4. CASE m = maps[u][k[u]]
      <4>1. m \notin was[u] /\ m \notin Writable0
        BY <1>2, <2>1, <2>4, <3>4 DEF KnowsPage
      <4>2. m \notin writable'
        BY <3>2, <3>4, <4>1
      <4>3. QED BY <1>4, <3>3, <4>1, <4>2
    <3>5. CASE m # maps[u][k[u]]
      <4>1. m \in writable' <=> m \in writable
        BY <3>2, <3>5
      <4>2. WillRestore(u, m) => WillRestore(u, m)'
        BY <2>1, <2>2, <3>1, <3>5 DEF WillRestore
      <4>3. QED BY <1>2, <1>4, <3>3, <4>1, <4>2
    <3>6. QED BY <3>4, <3>5
  <2>5. QED BY <2>3, <2>4
<1>15. CASE Finish(u)
  <2>1. writable' = writable /\ ~Open(u)'
    BY <1>8, <1>15 DEF Finish
  <2>2. CASE k[u] \notin DOMAIN maps[u]
    <3>1. \A i \in DOMAIN maps[u] : i < k[u]
      BY <2>2 DEF TypeInv, TypeOK
    <3>2. \A i \in DOMAIN maps[u] : maps[u][i] \notin marked[u]
      BY <1>15, <3>1 DEF PassedUnmarked, Finish
    <3>3. ~WillRestore(u, m)
      BY <3>2 DEF WillRestore, PagesOf
    <3>4. KnowsPage(u, m)'
      BY <2>1 DEF KnowsPage
    <3>5. QED BY <1>2, <1>4, <2>1, <3>3, <3>4
  <2>3. CASE k[u] \in DOMAIN maps[u]
    <3>1. m \notin PagesOf(u)
      BY <1>15, <2>3 DEF Finish
    <3>2. QED BY <1>5, <2>1, <3>1
  <2>4. QED BY <2>2, <2>3
<1>16. ASSUME NEW c \in Calls, NEW s \in NameLists,
              Begin(u, c, s) \/ NextName(u) \/ Return(u) \/ Lock(u)
       PROVE  Accounted(m)'
  <2>1. writable' = writable /\ ~Open(u) /\ ~Open(u)'
    BY <1>16 DEF Begin, NextName, Return, Lock, Open, Goto, TypeInv, TypeOK
  <2>2. QED BY <1>5, <2>1
<1>17. CASE NextName(u) \/ Return(u) \/ Lock(u)
  <2>1. writable' = writable /\ ~Open(u) /\ ~Open(u)'
    BY <1>17 DEF NextName, Return, Lock, Open, Goto, TypeInv, TypeOK
  <2>2. QED BY <1>5, <2>1
<1>18. QED
  BY <1>9, <1>10, <1>11, <1>12, <1>13, <1>14, <1>15, <1>16, <1>17
  DEF Act, Step

-----------------------------------------------------------------------------
(* A library that a system relink works on has no flag of a linked one, so *)
(* link_image is not skipped for it: behind the first of the group, it is  *)
(* relocated.                                                              *)
RootUnlinked(t) == Relinks(t, lib[t]) => "linked" \notin flags[lib[t]]

RootFirst(t) == pc[t] = "link" /\ k[t] # 1 => lib[t] \in relocated[t]

RootInv == \A t \in Thread : RootUnlinked(t) /\ RootFirst(t)

LEMMA FlagsChange ==
  ASSUME TypeInv, NEW u \in Thread, Act(u)
  PROVE  /\ lp64' = lp64
         /\ Lock(u) \/ LinkImage(u) \/ LinkDone(u) \/ UNCHANGED flags
BY DEF Act, Step, Begin, BeginHook, Return, NextName, Lock, ReadMaps,
       UnlockPage, UnlockFails, UnlockDone, Write, LinkSkips, LinkImage,
       LinkFails, LinkDone, RecoverPage, Finish

LEMMA RootOthers ==
  ASSUME TypeInv, MutexInv, RootInv, NEW u \in Thread, Act(u),
         NEW t \in Thread, t # u
  PROVE  RootUnlinked(t)' /\ RootFirst(t)'
<1>1. Same(t)
  BY Others
<1>2. RootFirst(t)'
  BY <1>1 DEF Same, RootInv, RootFirst
<1>3. ASSUME Relinks(t, lib[t]) PROVE "linked" \notin flags'[lib[t]]
  <2>1. Holds(t) /\ lib[t] \in Lib
    BY <1>3 DEF Relinks, Holds, TypeInv, TypeOK
  <2>2. mutex = t /\ ~Holds(u)
    BY <2>1 DEF MutexInv
  <2>3. "linked" \notin flags[lib[t]]
    BY <1>3 DEF RootInv, RootUnlinked
  <2>4. ~Lock(u)
    BY <2>2, RelinkAssumption DEF Lock
  <2>5. ~LinkDone(u) /\ ~LinkImage(u)
    BY <2>2 DEF LinkDone, LinkImage, Links, Visiting, Holds, TypeInv, CallInv
  <2>6. QED BY <2>3, <2>4, <2>5, FlagsChange
<1>4. RootUnlinked(t)'
  BY <1>1, <1>3 DEF Same, Relinks, RootUnlinked
<1>5. QED BY <1>2, <1>4

LEMMA RootStep ==
  ASSUME TypeInv, MutexInv, RootInv, NEW u \in Thread, Act(u)
  PROVE  RootInv'
<1>1. ASSUME NEW t \in Thread, t # u PROVE RootUnlinked(t)' /\ RootFirst(t)'
  BY <1>1, RootOthers
<1>2. RootUnlinked(u) /\ RootFirst(u)
  BY DEF RootInv
<1>3. RootUnlinked(u)' /\ RootFirst(u)'
  <2> USE DEF TypeInv, TypeOK, CallInv, Goto
  <2>1. ASSUME pc'[u] \notin {"read", "unlock", "link"}
        PROVE  RootUnlinked(u)' /\ RootFirst(u)'
    BY <2>1 DEF RootUnlinked, RootFirst, Relinks
  <2>2. ASSUME pc'[u] # "link", pc[u] \in {"read", "unlock"},
               UNCHANGED <<flags, call, lib>>
        PROVE  RootUnlinked(u)' /\ RootFirst(u)'
    BY <1>2, <2>2 DEF RootUnlinked, RootFirst, Relinks
  <2>3. ASSUME NEW r \in BOOLEAN, Leave(u, r)
        PROVE  RootUnlinked(u)' /\ RootFirst(u)'
    <3>1. pc'[u] \in {"loop", "idle"}
      BY <2>3 DEF Leave
    <3>2. QED BY <2>1, <3>1
  <2>4. CASE BeginHook(u)
    BY <2>4 DEF BeginHook, Opened, RootUnlinked, RootFirst, Relinks
  <2>5. CASE Lock(u)
    BY <2>5 DEF Lock, RootUnlinked, RootFirst, Relinks, request
  <2>6. CASE ReadMaps(u)
    <3>1. CASE Opened(u, Maps[lib[u]]) /\ UNCHANGED <<mutex, lib, success, gaveUp>>
      <4>1. pc[u] = "read" /\ pc'[u] = "unlock" /\ UNCHANGED <<flags, call, lib>>
        BY <2>6, <3>1 DEF ReadMaps, Opened, request
      <4>2. QED BY <2>2, <4>1
    <3>2. QED BY <2>3, <2>6, <3>1 DEF ReadMaps
  <2>7. CASE UnlockPage(u)
    <3>1. pc[u] = "unlock" /\ pc'[u] = "unlock" /\ UNCHANGED <<flags, call, lib>>
      BY <2>7 DEF UnlockPage, request
    <3>2. QED BY <2>2, <3>1
  <2>8. ASSUME pc[u] = "unlock", k'[u] = 1, UNCHANGED <<flags, call, lib>>
        PROVE  RootUnlinked(u)' /\ RootFirst(u)'
    BY <1>2, <2>8 DEF RootUnlinked, RootFirst, Relinks
  <2>9. CASE UnlockFails(u)
    <3>1. CASE call[u] = "system"
      BY <2>8, <2>9, <3>1 DEF UnlockFails, request
    <3>2. QED BY <2>3, <2>9, <3>1 DEF UnlockFails
  <2>10. CASE UnlockDone(u)
    BY <2>8, <2>10 DEF UnlockDone, request
  <2>11. CASE LinkSkips(u) \/ LinkImage(u)
    <3>1. /\ pc[u] = "link" /\ pc' = pc /\ call[u] = "system" /\ call' = call
          /\ lib' = lib /\ lib[u] \in Lib /\ Relinks(u, lib[u])
      BY <2>11 DEF LinkSkips, LinkImage, Links, Visiting, request, Relinks
    <3>2. "linked" \notin flags[lib[u]]
      BY <1>2, <3>1 DEF RootUnlinked
    <3>3. "linked" \notin flags'[lib[u]]
      <4>1. CASE LinkSkips(u)
        BY <3>2, <3>1, <4>1 DEF LinkSkips
      <4>2. CASE LinkImage(u)
        <5>1. flags'[lib[u]] \subseteq flags[lib[u]] \cup {"image"}
          BY <3>1, <4>2 DEF LinkImage
        <5>2. QED BY <3>2, <5>1
      <4>3. QED BY <2>11, <4>1, <4>2
    <3>4. RootUnlinked(u)'
      BY <3>1, <3>3 DEF RootUnlinked
    <3>5. lib[u] \in relocated'[u]
      <4>1. CASE k[u] # 1
        BY <1>2, <2>11, <3>1, <4>1 DEF RootFirst, LinkSkips, LinkImage
      <4>2. CASE k[u] = 1
        <5>1. Visited(u) = lib[u]
          <6>1. 1 \in DOMAIN Local(lib[u])
            BY <2>11, <4>2 DEF LinkSkips, LinkImage, Links, Visiting
          <6>2. Local(lib[u]) # <<>>
            BY <6>1
          <6>3. QED BY <3>1, <4>2, <6>2, GroupTypes DEF Visited
        <5>2. LinkImage(u)
          BY <2>11, <3>2, <5>1 DEF LinkSkips
        <5>3. QED BY <5>1, <5>2 DEF LinkImage
      <4>3. QED BY <4>1, <4>2
    <3>6. QED BY <3>1, <3>4, <3>5 DEF RootFirst
  <2>12. CASE LinkFails(u) \/ LinkDone(u) \/ Write(u)
    <3>1. pc'[u] = "recover"
      BY <2>12 DEF LinkFails, LinkDone, Linked, Write
    <3>2. QED BY <2>1, <3>1
  <2>13. CASE RecoverPage(u)
    <3>1. pc'[u] = "recover"
      BY <2>13 DEF RecoverPage
    <3>2. QED BY <2>1, <3>1
  <2>14. CASE Finish(u)
    BY <2>3, <2>14 DEF Finish
  <2>15. CASE NextName(u) \/ Return(u)
    <3>1. pc'[u] \in {"loop", "returned", "lock", "idle"}
      BY <2>15 DEF NextName, Return
    <3>2. QED BY <2>1, <3>1
  <2>16. ASSUME NEW c \in Calls, NEW s \in NameLists, Begin(u, c, s)
         PROVE  RootUnlinked(u)' /\ RootFirst(u)'
    <3>1. pc'[u] = "loop"
      BY <2>16 DEF Begin
    <3>2. QED BY <2>1, <3>1
  <2>17. QED
    BY <2>4, <2>5, <2>6, <2>7, <2>9, <2>10, <2>11, <2>12, <2>13, <2>14, <2>15,
       <2>16 DEF Act, Step
<1>4. QED BY <1>1, <1>3 DEF RootInv

-----------------------------------------------------------------------------
(* An empty local group stays empty: no flag that was lost comes back.     *)
LEMMA EmptyIsUnreachable ==
  ASSUME NEW l \in Lib, Local(l) = <<>>
  PROVE  Unreachable(l)
<1>1. Lost \in SUBSET Lib
  BY DEF Lost
<1>2. l \in Lost
  BY <1>1, RelinkAssumption DEF Local
<1>3. ~lp64
  BY <1>2 DEF Lost
<1>4. QED BY <1>2, <1>3 DEF Unreachable

LEMMA LostGrows ==
  ASSUME TypeInv, NEW u \in Thread, Act(u)
  PROVE  Lost \subseteq Lost'
<1> SUFFICES ASSUME NEW l \in Lib, ~lp64, "new" \notin flags[l]
             PROVE  "new" \notin flags'[l]
  BY FlagsChange DEF Lost
<1> USE DEF TypeInv, TypeOK
<1>1. CASE Lock(u)
  BY <1>1 DEF Lock
<1>2. CASE LinkImage(u)
  BY <1>2 DEF LinkImage
<1>3. CASE LinkDone(u)
  BY <1>3 DEF LinkDone
<1>4. QED BY <1>1, <1>2, <1>3, FlagsChange

LEMMA StaysUnreachable ==
  ASSUME TypeInv, NEW u \in Thread, Act(u), NEW l, Unreachable(l)
  PROVE  Unreachable(l)'
<1>1. ~lp64 /\ ~lp64' /\ l \in Lost /\ l \in Lost' /\ l \in Lib
  BY FlagsChange, LostGrows DEF Unreachable, Lost
<1>2. Lost' \in SUBSET Lib /\ Lost \in SUBSET (Lost')
  BY LostGrows DEF Lost
<1>3. Group[l][Lost] = <<>> => Group[l][Lost'] = <<>>
  BY <1>1, <1>2, RelinkAssumption
<1>4. Local(l)' = <<>>
  BY <1>3 DEF Unreachable, Local
<1>5. QED BY <1>1, <1>4 DEF Unreachable

-----------------------------------------------------------------------------
(* As long as no library failed, the names passed so far are relocated,    *)
(* but for the one at work, and for those with an empty local group.       *)
PassedRelocated(t) ==
  call[t] # "hook" /\ success[t] /\ pc[t] # "idle" =>
    /\ \A i \in DOMAIN asked[t] : i < next[t] =>
         \/ asked[t][i] \in relocated[t] \cup {NoLib}
         \/ call[t] = "system" /\ Unreachable(asked[t][i])
         \/ asked[t][i] = lib[t] /\ pc[t] \in {"lock", "read", "unlock", "write", "link"}
    /\ pc[t] = "returned" => \A i \in DOMAIN asked[t] : i < next[t]

ResultInv == \A t \in Thread : PassedRelocated(t)

LEMMA NameListDomain ==
  ASSUME NEW s \in Seq(Lib \cup {NoLib}), NEW n \in Nat \ {0}, n \notin DOMAIN s
  PROVE  \A i \in DOMAIN s : i \in Nat /\ i < n
OBVIOUS

LEMMA NamesFromOne ==
  ASSUME NEW s \in Seq(Lib \cup {NoLib})
  PROVE  \A i \in DOMAIN s : i \in Nat \ {0}
OBVIOUS

LEMMA ResultStep ==
  ASSUME TypeInv, RootInv, ResultInv, NEW u \in Thread, Act(u)
  PROVE  ResultInv'
<1>0. \A l : Unreachable(l) => Unreachable(l)'
  BY StaysUnreachable
<1>1. ASSUME NEW t \in Thread, t # u PROVE PassedRelocated(t)'
  <2>1. Same(t)
    BY <1>1, Others
  <2>2. PassedRelocated(t)
    BY DEF ResultInv
  <2>3. QED BY <1>0, <2>1, <2>2 DEF Same, PassedRelocated
<1>2. PassedRelocated(u)
  BY DEF ResultInv
<1>3. PassedRelocated(u)'
  <2> USE DEF TypeInv, TypeOK, CallInv, Goto
  <2>1. ASSUME NEW c \in Calls, NEW s \in NameLists, Begin(u, c, s)
        PROVE  PassedRelocated(u)'
    <3>1. pc'[u] = "loop" /\ asked'[u] = s /\ next'[u] = 1
      BY <2>1 DEF Begin
    <3>2. \A i \in DOMAIN s : ~(i < 1)
      BY NamesFromOne, RelinkAssumption
    <3>3. QED BY <3>1, <3>2 DEF PassedRelocated
  <2>2. CASE BeginHook(u)
    BY <2>2 DEF BeginHook, PassedRelocated
  <2>3. CASE NextName(u)
    <3>1. /\ pc[u] = "loop" /\ call' = call /\ success' = success
          /\ asked' = asked /\ relocated' = relocated
      BY <2>3 DEF NextName
    <3>2. CASE next[u] \in DOMAIN asked[u]
      <4>1. next'[u] = next[u] + 1 /\ next[u] \in Nat
        BY <2>3, <3>2 DEF NextName
      <4>2. \A i \in DOMAIN asked[u] : i < next[u] + 1 => i < next[u] \/ i = next[u]
        <5>1. \A i \in DOMAIN asked[u] : i \in Nat
          BY NamesFromOne
        <5> HIDE DEF TypeInv
        <5>2. ASSUME NEW i \in DOMAIN asked[u], i < next[u] + 1
              PROVE  i < next[u] \/ i = next[u]
          <6>1. i \in Nat
            BY <5>1
          <6>2. QED BY <4>1, <5>2, <6>1
        <5>3. QED BY <5>2
      <4>3. CASE asked[u][next[u]] = NoLib
        <5>1. pc'[u] = "loop"
          BY <2>3, <3>1, <3>2, <4>3 DEF NextName
        <5>2. QED BY <1>0, <1>2, <3>1, <4>1, <4>2, <4>3, <5>1 DEF PassedRelocated
      <4>4. CASE asked[u][next[u]] # NoLib
        <5>1. pc'[u] = "lock" /\ lib'[u] = asked[u][next[u]]
          BY <2>3, <3>2, <4>4 DEF NextName
        <5>2. QED BY <1>0, <1>2, <3>1, <4>1, <4>2, <5>1 DEF PassedRelocated
      <4>5. QED BY <4>3, <4>4
    <3>3. CASE next[u] \notin DOMAIN asked[u]
      <4>1. pc'[u] = "returned" /\ next' = next
        BY <2>3, <3>3 DEF NextName
      <4>2. \A i \in DOMAIN asked[u] : i < next[u]
        BY <3>3, NameListDomain
      <4>3. QED BY <1>0, <1>2, <3>1, <4>1, <4>2 DEF PassedRelocated
    <3>4. QED BY <3>2, <3>3
  <2>4. CASE Return(u)
    BY <2>4 DEF Return, PassedRelocated
  <2>5. ASSUME pc[u] \in {"lock", "read", "unlock"},
               pc'[u] \in {"read", "unlock", "write", "link"},
               UNCHANGED <<request, lib, success, relocated>>
        PROVE  PassedRelocated(u)'
    <3>1. /\ call'[u] = call[u] /\ asked'[u] = asked[u] /\ next'[u] = next[u]
          /\ lib'[u] = lib[u] /\ success'[u] = success[u]
          /\ relocated'[u] = relocated[u]
      BY <2>5 DEF request
    <3> HIDE DEF TypeInv, TypeOK, CallInv
    <3>2. QED BY <1>0, <1>2, <2>5, <3>1 DEF PassedRelocated
  <2>6. ASSUME Leave(u, FALSE) PROVE PassedRelocated(u)'
    <3>1. ~success'[u]
      BY <2>6 DEF Leave
    <3>2. QED BY <3>1 DEF PassedRelocated
  <2>7. CASE Lock(u)
    BY <2>5, <2>7 DEF Lock
  <2>8. CASE ReadMaps(u)
    <3>1. CASE Opened(u, Maps[lib[u]]) /\ UNCHANGED <<mutex, lib, success, gaveUp>>
      BY <2>5, <2>8, <3>1 DEF ReadMaps, Opened
    <3>2. QED BY <2>6, <2>8, <3>1 DEF ReadMaps
  <2>9. CASE UnlockPage(u)
    BY <2>5, <2>9 DEF UnlockPage
  <2>10. CASE UnlockFails(u)
    <3>1. CASE call[u] = "system"
      BY <2>5, <2>10, <3>1 DEF UnlockFails
    <3>2. QED BY <2>6, <2>10, <3>1 DEF UnlockFails
  <2>11. CASE UnlockDone(u)
    BY <2>5, <2>11 DEF UnlockDone
  <2>12. ASSUME pc[u] \in {"write", "link"}, pc'[u] = "recover",
                UNCHANGED <<request, lib>>, success'[u] = success[u],
                relocated[u] \subseteq relocated'[u],
                \/ lib[u] \in relocated'[u]
                \/ call[u] = "system" /\ Unreachable(lib[u])'
         PROVE  PassedRelocated(u)'
    BY <1>0, <1>2, <2>12 DEF PassedRelocated, request
  <2>13. CASE Write(u)
    <3>1. /\ pc[u] = "write" /\ pc'[u] = "recover"
          /\ UNCHANGED <<request, lib, success>>
      BY <2>13 DEF Write
    <3>2. CASE call[u] = "manual"
      <4>1. relocated'[u] = relocated[u] \cup {lib[u]}
        BY <2>13, <3>2 DEF Write
      <4> HIDE DEF TypeInv, TypeOK, CallInv
      <4>2. QED BY <2>12, <3>1, <4>1
    <3>3. CASE call[u] # "manual"
      <4>1. call[u] = "hook"
        BY <3>1, <3>3
      <4>2. QED BY <3>1, <4>1 DEF PassedRelocated, request
    <3>4. QED BY <3>2, <3>3
  <2>14. CASE LinkSkips(u) \/ LinkImage(u)
    <3>1. /\ UNCHANGED <<request, lib, success, pc>>
          /\ relocated[u] \subseteq relocated'[u]
      BY <2>14 DEF LinkSkips, LinkImage
    <3>2. QED BY <1>0, <1>2, <3>1 DEF PassedRelocated, request
  <2>15. CASE LinkFails(u)
    <3>1. ~success'[u]
      BY <2>15 DEF LinkFails, Linked
    <3>2. QED BY <3>1 DEF PassedRelocated
  <2>16. CASE LinkDone(u)
    <3>1. /\ pc[u] = "link" /\ pc'[u] = "recover" /\ call[u] = "system"
          /\ success'[u] = success[u] /\ lib[u] \in Lib
          /\ UNCHANGED <<request, lib, relocated>>
      BY <2>16 DEF LinkDone, Linked
    <3>2. CASE Local(lib[u]) = <<>>
      <4>1. Unreachable(lib[u])
        BY <3>1, <3>2, EmptyIsUnreachable
      <4>2. Unreachable(lib[u])'
        BY <1>0, <3>1, <4>1
      <4>3. QED BY <2>12, <3>1, <4>2
    <3>3. CASE Local(lib[u]) # <<>>
      <4>1. 1 \in DOMAIN Local(lib[u])
        BY <3>1, <3>3, GroupTypes
      <4>2. k[u] # 1
        BY <2>16, <4>1 DEF LinkDone
      <4>3. lib[u] \in relocated[u]
        BY <3>1, <4>2 DEF RootInv, RootFirst
      <4>4. QED BY <2>12, <3>1, <4>3
    <3>4. QED BY <3>2, <3>3
  <2>17. CASE RecoverPage(u)
    <3>1. UNCHANGED <<request, lib, success, relocated, pc>>
      BY <2>17 DEF RecoverPage
    <3>2. QED BY <1>0, <1>2, <3>1 DEF PassedRelocated, request
  <2>18. CASE Finish(u)
    <3>1. /\ pc[u] = "recover" /\ success'[u] = success[u]
          /\ pc'[u] \in {"idle", "loop"}
          /\ UNCHANGED <<request, relocated>>
      BY <2>18 DEF Finish, Leave
    <3>2. QED BY <1>0, <1>2, <3>1 DEF PassedRelocated, request
  <2>19. QED
    BY <2>1, <2>2, <2>3, <2>4, <2>7, <2>8, <2>9, <2>10, <2>11, <2>13, <2>14,
       <2>15, <2>16, <2>17, <2>18 DEF Act, Step
<1>4. QED BY <1>1, <1>3 DEF ResultInv

-----------------------------------------------------------------------------
IInv ==
  /\ TypeInv
  /\ MutexInv
  /\ PagesInv
  /\ WriteInv
  /\ LinkInv
  /\ PassedUnmarked
  /\ RestoreInv
  /\ RootInv
  /\ ResultInv

LEMMA InitInductive == Init => IInv
<1> SUFFICES ASSUME Init PROVE IInv
  OBVIOUS
<1>1. TypeInv
  <2>1. <<>> \in Seq(Mapping) /\ 1 \in Nat \ {0}
    OBVIOUS
  <2>2. QED
    BY <2>1, RelinkAssumption DEF Init, TypeInv, TypeOK, CallInv, Labels
<1>2. /\ MutexInv /\ PagesInv /\ WriteInv /\ PassedUnmarked
      /\ RootInv /\ ResultInv
  BY RelinkAssumption
  DEF Init, MutexInv, PagesInv, WriteInv, PassedUnmarked, ResultInv, Holds,
      Open, PassedWritable, RootInv, RootUnlinked, RootFirst, Relinks,
      PassedRelocated
<1>3. LinkInv
  BY DEF Init, LinkInv
<1>4. RestoreInv
  BY DEF Init, RestoreInv, Accounted, KnowsPage, Open
<1>5. QED BY <1>1, <1>2, <1>3, <1>4 DEF IInv

LEMMA StepInductive == IInv /\ [Next]_vars => IInv'
<1> SUFFICES ASSUME IInv, [Next]_vars PROVE IInv'
  OBVIOUS
<1>1. TypeInv'
  BY TypeStep DEF IInv
<1>2. CASE UNCHANGED vars
  <2>1. /\ MutexInv' /\ PagesInv' /\ WriteInv' /\ LinkInv' /\ PassedUnmarked'
        /\ RestoreInv'
    BY <1>2
    DEF IInv, MutexInv, PagesInv, WriteInv, LinkInv, PassedUnmarked, RestoreInv,
        Holds, Open, PassedWritable, Accounted, KnowsPage, WillRestore, PagesOf,
        Relinks, vars, request, session
  <2>2. RootInv'
    BY <1>2 DEF IInv, RootInv, RootUnlinked, RootFirst, Relinks, vars, request
  <2>3. \A l : Unreachable(l)' = Unreachable(l)
    BY <1>2 DEF Unreachable, Local, Lost, vars
  <2>4. ResultInv'
    BY <1>2, <2>3 DEF IInv, ResultInv, PassedRelocated, vars, request
  <2>5. QED BY <1>1, <2>1, <2>2, <2>4 DEF IInv
<1>3. ASSUME NEW u \in Thread, Act(u) PROVE IInv'
  BY <1>1, <1>3, MutexStep, WriteStep, LinkStep, UnmarkedStep, RestoreStep,
     RootStep, ResultStep DEF IInv
<1>4. QED BY <1>2, <1>3, Steps

LEMMA Inductive == Spec => []IInv
BY InitInductive, StepInductive, PTL DEF Spec

(* WriteNeverFaults: whatever the threads relink and hook, and whatever    *)
(* mprotect fails, a manual relink writes to writable pages only.          *)
THEOREM WriteNeverFaultsCorrect == Spec => []WriteNeverFaults
<1>1. IInv => WriteNeverFaults
  BY DEF IInv, WriteInv, PassedWritable, PagesInv, WriteNeverFaults, Open,
         PagesOf, Pages
<1>2. QED BY <1>1, Inductive, PTL

(* LinkNeverFaults: the only library link_image can meet with its pages    *)
(* still locked is one that an earlier, failed relink left unlinked.       *)
THEOREM LinkNeverFaultsCorrect == Spec => []LinkNeverFaults
<1>1. ASSUME IInv, NEW t \in Thread, Links(t)
      PROVE  IF Visited(t) = lib[t]
               THEN Pages(lib[t]) \ {Table} \subseteq writable \cup failed
               ELSE Visited(t) \in gaveUp
  <2>1. /\ pc[t] = "link" /\ call[t] = "system" /\ lib[t] \in Lib
        /\ k[t] \in DOMAIN Local(lib[t])
        /\ "linked" \notin flags[Visited(t)]
    BY <1>1 DEF IInv, TypeInv, TypeOK, CallInv, Links, Visiting
  <2>2. Holds(t) /\ maps[t] = Maps[lib[t]]
    BY <1>1, <2>1 DEF IInv, PagesInv, Holds, Open
  <2>3. CASE Visited(t) = lib[t]
    <3>1. Pages(lib[t]) = PagesOf(t)
      BY <2>2 DEF Pages, PagesOf
    <3>2. QED BY <1>1, <2>1, <2>3, <3>1 DEF IInv, WriteInv, PassedWritable
  <2>4. CASE Visited(t) # lib[t]
    <3>1. Visited(t) \in Lib
      BY <2>1, GroupTypes DEF Visited
    <3>2. ASSUME NEW u \in Thread, Relinks(u, Visited(t)) PROVE FALSE
      <4>1. Holds(u)
        BY <3>2 DEF Relinks, Holds
      <4>2. u = t
        BY <1>1, <2>2, <4>1 DEF IInv, MutexInv
      <4>3. QED BY <2>4, <3>2, <4>2 DEF Relinks
    <3>3. QED BY <1>1, <2>1, <2>4, <3>1, <3>2 DEF IInv, LinkInv
  <2>5. QED BY <2>3, <2>4
<1>2. IInv => LinkNeverFaults
  BY <1>1 DEF LinkNeverFaults
<1>3. QED BY <1>2, Inductive, PTL

(* ProtectionRestored: outside the calls that have it open, a mapping has  *)
(* the protection it started with, unless an mprotect failed.              *)
THEOREM ProtectionRestoredCorrect == Spec => []ProtectionRestored
<1>1. IInv => ProtectionRestored
  BY DEF IInv, RestoreInv, Accounted, WillRestore, ProtectionRestored
<1>2. QED BY <1>1, Inductive, PTL

(* TrueMeansRelocated: a call that returns true has relocated every        *)
(* library it was given by the name of one; only on a 32-bit ABI may a     *)
(* system relink have found the local group of one empty instead.          *)
THEOREM TrueMeansRelocatedCorrect == Spec => []TrueMeansRelocated
<1>1. ASSUME IInv, NEW t \in Thread, pc[t] = "returned", success[t],
             NEW i \in DOMAIN asked[t]
      PROVE  \/ asked[t][i] \in relocated[t] \cup {NoLib}
             \/ call[t] = "system" /\ Unreachable(asked[t][i])
  <2>1. call[t] # "hook"
    BY <1>1 DEF IInv, TypeInv, CallInv
  <2>2. QED BY <1>1, <2>1 DEF IInv, ResultInv, PassedRelocated
<1>2. IInv => TrueMeansRelocated
  BY <1>1 DEF TrueMeansRelocated
<1>3. QED BY <1>2, Inductive, PTL
=============================================================================
