-------------------------- MODULE InitialiseProofs --------------------------
(* What init_fakelinker leaves behind, for any set of linker symbols, any  *)
(* categories and any sequence of calls, failures and restarts.            *)
EXTENDS Initialise, TLAPS

(* What the later parts of a call may rely on.                             *)
SoinfoInv == pc \in {"native", "java"} /\ "soinfo" \in call.parts => initSuccess

NativeInv == pc = "java" /\ "native" \in call.parts => nativeReady

SuccessInv == initSuccess => initialized /\ Solist \in loaded

IInv == TypeOK /\ SoinfoInv /\ NativeInv /\ SuccessInv

(* Every step keeps the types of the state.                                *)
LEMMA TypeStep == TypeOK /\ [Next]_vars => TypeOK'
<1> SUFFICES ASSUME TypeOK, [Next]_vars PROVE TypeOK'
  OBVIOUS
<1> USE DEF TypeOK, art
<1>1. CASE Restart
  <2>1. 0 \in 0 .. 6
    OBVIOUS
  <2>2. loaded' \in SUBSET Symbol /\ first' \in SUBSET Category
    BY <1>1, Zenon DEF Restart
  <2>3. /\ initialized' \in BOOLEAN /\ initSuccess' \in BOOLEAN
        /\ nativeReady' \in BOOLEAN /\ fault' \in BOOLEAN /\ artField' \in BOOLEAN
    BY <1>1 DEF Restart
  <2>4. UNCHANGED <<onDevice, needsField, call>> /\ registered' = "none"
        /\ pc' = "idle" /\ code' = 0
    BY <1>1 DEF Restart
  <2> QED
    BY <2>1, <2>2, <2>3, <2>4
<1>2. ASSUME NEW c \in Call, Begin(c) PROVE TypeOK'
  BY <1>2 DEF Begin
<1>3. CASE SoinfoDone
  BY <1>3 DEF SoinfoDone
<1>4. CASE ReaderFails
  BY <1>4 DEF ReaderFails, Return
<1>5. CASE RequiredMissing
  BY <1>5, InitialiseAssumption DEF RequiredMissing, Return
<1>6. CASE LoadAborts
  BY <1>6, InitialiseAssumption DEF LoadAborts
<1>7. CASE LoadSymbols
  <2>1. Categories \in SUBSET Category
    BY DEF Categories, Call
  <2>2. (loaded \cup (Selected \cap onDevice)) \in SUBSET Symbol
    OBVIOUS
  <2> QED
    BY <1>7, <2>1, <2>2 DEF LoadSymbols
<1>8. CASE NativeDone
  BY <1>8 DEF NativeDone
<1>9. CASE NativeNoEnv
  BY <1>9 DEF NativeNoEnv, Return
<1>10. CASE NativeFails
  BY <1>10 DEF NativeFails, Return
<1>17. CASE NativeAborts
  BY <1>17 DEF NativeAborts
<1>11. CASE NativeInit
  BY <1>11 DEF NativeInit
<1>12. CASE JavaDone
  BY <1>12 DEF JavaDone, Return
<1>13. CASE JavaNoEnv
  BY <1>13 DEF JavaNoEnv, Return
<1>14. CASE JavaFails
  BY <1>14 DEF JavaFails, Return
<1>15. CASE JavaRegister
  <2>1. call.class \in {"default", "custom"}
    BY DEF Call
  <2> QED
    BY <1>15, <2>1 DEF JavaRegister, Return
<1>16. CASE UNCHANGED vars
  BY <1>16 DEF vars
<1> QED
  BY <1>1, <1>2, <1>3, <1>4, <1>5, <1>6, <1>7, <1>8, <1>9, <1>10, <1>11,
     <1>12, <1>13, <1>14, <1>15, <1>16, <1>17 DEF Next

(* Every step keeps what the later parts of a call rely on.                *)
LEMMA RelyStep == IInv /\ [Next]_vars => SoinfoInv' /\ NativeInv' /\ SuccessInv'
<1> SUFFICES ASSUME IInv, [Next]_vars
             PROVE SoinfoInv' /\ NativeInv' /\ SuccessInv'
  OBVIOUS
<1> USE DEF IInv, SoinfoInv, NativeInv, SuccessInv
<1>1. CASE Restart
  BY <1>1 DEF Restart
<1>2. ASSUME NEW c \in Call, Begin(c)
      PROVE SoinfoInv' /\ NativeInv' /\ SuccessInv'
  BY <1>2 DEF Begin
<1>3. CASE SoinfoDone
  BY <1>3 DEF SoinfoDone
<1>4. CASE ReaderFails
  BY <1>4 DEF ReaderFails, Return
<1>5. CASE RequiredMissing
  BY <1>5 DEF RequiredMissing, Return, Loads
<1>6. CASE LoadAborts
  BY <1>6 DEF LoadAborts, Loads
<1>7. CASE LoadSymbols
  (* The selection always takes solist in, and solist is required.         *)
  <2>1. Solist \in Selected \cap onDevice
    BY <1>7 DEF LoadSymbols, Required, Selected
  <2> QED
    BY <1>7, <2>1 DEF LoadSymbols
<1>8. CASE NativeDone
  BY <1>8 DEF NativeDone
<1>9. CASE NativeNoEnv
  BY <1>9 DEF NativeNoEnv, Return
<1>10. CASE NativeFails
  BY <1>10 DEF NativeFails, Return
<1>17. CASE NativeAborts
  BY <1>17 DEF NativeAborts
<1>11. CASE NativeInit
  BY <1>11 DEF NativeInit, Native
<1>12. CASE JavaDone
  BY <1>12 DEF JavaDone, Return
<1>13. CASE JavaNoEnv
  BY <1>13 DEF JavaNoEnv, Return
<1>14. CASE JavaFails
  BY <1>14 DEF JavaFails, Return
<1>15. CASE JavaRegister
  BY <1>15 DEF JavaRegister, Return
<1>16. CASE UNCHANGED vars
  BY <1>16 DEF vars
<1> QED
  BY <1>1, <1>2, <1>3, <1>4, <1>5, <1>6, <1>7, <1>8, <1>9, <1>10, <1>11,
     <1>12, <1>13, <1>14, <1>15, <1>16, <1>17 DEF Next

(* The invariant holds at every state of every sequence of calls.          *)
THEOREM InvCorrect == Spec => []IInv
<1>1. Init => IInv
  <2> SUFFICES ASSUME Init PROVE IInv
    OBVIOUS
  <2>1. call \in Call
    BY DEF Init, Call, Part
  <2>2. onDevice \in SUBSET Symbol /\ loaded \in SUBSET Symbol /\ first \in SUBSET Category
    BY DEF Init
  <2>3. code \in 0 .. 6
    BY DEF Init
  <2>4. /\ initialized \in BOOLEAN /\ initSuccess \in BOOLEAN
        /\ nativeReady \in BOOLEAN /\ fault \in BOOLEAN
        /\ needsField \in BOOLEAN /\ artField \in BOOLEAN
        /\ registered = "none" /\ pc = "idle"
    BY DEF Init
  <2>5. TypeOK
    BY <2>1, <2>2, <2>3, <2>4 DEF TypeOK
  <2>6. SoinfoInv /\ NativeInv /\ SuccessInv
    BY DEF Init, SoinfoInv, NativeInv, SuccessInv
  <2> QED
    BY <2>5, <2>6 DEF IInv
<1>2. IInv /\ [Next]_vars => IInv'
  BY TypeStep, RelyStep DEF IInv
<1> QED
  BY <1>1, <1>2, PTL DEF Spec

(* The result codes and flags of init_fakelinker stay in their ranges.     *)
THEOREM TypeCorrect == Spec => []TypeOK
BY InvCorrect, PTL DEF IInv

(* A step keeps the fields that were looked for when init_success was set: *)
(* the step that sets it looks for all of them, and none comes after it.   *)
LEMMA CompleteStep ==
  TypeOK /\ CompleteForFirst /\ [Next]_vars => CompleteForFirst'
<1> SUFFICES ASSUME TypeOK, CompleteForFirst, [Next]_vars
             PROVE CompleteForFirst'
  OBVIOUS
<1> USE DEF CompleteForFirst
<1>1. CASE Restart
  BY <1>1 DEF Restart
<1>2. CASE LoadSymbols
  <2>1. ASSUME NEW s \in onDevice, s = Solist \/ CategoryOf[s] \in Categories
        PROVE s \in loaded \cup (Selected \cap onDevice)
    <3>1. CASE s = Solist
      BY <3>1 DEF Selected
    <3>2. CASE s # Solist /\ s \in Symbol
      BY <2>1, <3>2 DEF Selected
    <3> QED
      BY <3>1, <3>2 DEF TypeOK
  <2> QED
    BY <1>2, <2>1 DEF LoadSymbols
<1>3. CASE ReaderFails \/ RequiredMissing \/ LoadAborts
  BY <1>3 DEF ReaderFails, RequiredMissing, LoadAborts, Loads
<1>4. CASE UNCHANGED <<onDevice, loaded, initSuccess, first>>
  BY <1>4
<1>5. CASE (\E c \in Call : Begin(c)) \/ SoinfoDone
  BY <1>5, <1>4 DEF Begin, SoinfoDone
<1>6. CASE NativeDone \/ NativeNoEnv \/ NativeAborts \/ NativeFails \/ NativeInit
  BY <1>6, <1>4
  DEF NativeDone, NativeNoEnv, NativeAborts, NativeFails, NativeInit
<1>7. CASE JavaDone \/ JavaNoEnv \/ JavaFails \/ JavaRegister
  BY <1>7, <1>4 DEF JavaDone, JavaNoEnv, JavaFails, JavaRegister
<1>8. CASE UNCHANGED vars
  BY <1>8, <1>4 DEF vars
<1> QED
  BY <1>1, <1>2, <1>3, <1>5, <1>6, <1>7, <1>8 DEF Next

(* CompleteForFirst: once init_success is set, every symbol of the         *)
(* categories it was reached with that the linker has is loaded.           *)
THEOREM CompleteForFirstCorrect == Spec => []CompleteForFirst
<1>1. Init => CompleteForFirst
  BY DEF Init, CompleteForFirst
<1> QED
  BY <1>1, CompleteStep, TypeCorrect, PTL DEF Spec

(* AbortsOnlyInPart: a call that asks for linker_soinfo's category is not  *)
(* aborted while symbols are looked for, and the native hook aborts one on *)
(* Android R and later only, before the process has found artMethod and    *)
(* behind all that the call asked of the linker.                           *)
THEOREM AbortsOnlyInPartCorrect == Spec => []AbortsOnlyInPart
<1>1. Init => AbortsOnlyInPart
  BY DEF Init, AbortsOnlyInPart
<1>2. IInv /\ AbortsOnlyInPart /\ [Next]_vars => AbortsOnlyInPart'
  <2> SUFFICES ASSUME IInv, AbortsOnlyInPart, [Next]_vars PROVE AbortsOnlyInPart'
    OBVIOUS
  <2>1. CASE LoadAborts
    <3>1. LinkerSoinfo \in Symbol \ {Solist} /\ LinkerSoinfo \notin Selected
      BY <2>1, InitialiseAssumption DEF LoadAborts, NeedsLinkerSoinfo
    <3>2. CategoryOf[LinkerSoinfo] \notin Categories
      BY <3>1 DEF Selected
    <3>3. "soinfo" \in call.parts /\ ~initSuccess /\ UNCHANGED <<call, initSuccess>>
      BY <2>1 DEF LoadAborts, Loads
    <3> QED
      BY <3>2, <3>3 DEF AbortsOnlyInPart, Categories
  <2>2. CASE NativeAborts
    <3>1. /\ "native" \in call.parts /\ call.env /\ ~nativeReady
          /\ needsField /\ ~artField /\ pc = "native"
          /\ UNCHANGED <<call, nativeReady, needsField, artField, initSuccess>>
      BY <2>2 DEF NativeAborts, Native, art
    <3>2. "soinfo" \in call.parts => initSuccess
      BY <3>1 DEF IInv, SoinfoInv
    <3> QED
      BY <3>1, <3>2 DEF AbortsOnlyInPart
  <2>3. CASE pc' # "aborted"
    BY <2>3 DEF AbortsOnlyInPart
  <2>4. CASE Restart \/ (\E c \in Call : Begin(c)) \/ SoinfoDone
    BY <2>4, <2>3 DEF Restart, Begin, SoinfoDone
  <2>5. CASE ReaderFails \/ RequiredMissing \/ LoadSymbols
    BY <2>5, <2>3 DEF ReaderFails, RequiredMissing, LoadSymbols, Return
  <2>6. CASE NativeDone \/ NativeNoEnv \/ NativeFails \/ NativeInit
    BY <2>6, <2>3 DEF NativeDone, NativeNoEnv, NativeFails, NativeInit, Return
  <2>7. CASE JavaDone \/ JavaNoEnv \/ JavaFails \/ JavaRegister
    BY <2>7, <2>3 DEF JavaDone, JavaNoEnv, JavaFails, JavaRegister, Return
  <2>8. CASE UNCHANGED vars
    BY <2>8 DEF vars, art, AbortsOnlyInPart, Categories
  <2> QED
    BY <2>1, <2>2, <2>4, <2>5, <2>6, <2>7, <2>8 DEF Next
<1> QED
  BY <1>1, <1>2, InvCorrect, PTL DEF Spec

(* ZeroMeansReady: a call that returns 0 leaves what it was asked for ready*)
(* for use, the default Java class with kFMJavaRegister excepted.          *)
THEOREM ZeroMeansReadyCorrect == Spec => ZeroMeansReady
<1> DEFINE Ready == Returns /\ code' = 0 =>
             /\ "soinfo" \in call.parts =>
                  initSuccess /\ initialized /\ Solist \in loaded
             /\ "native" \in call.parts => nativeReady
             /\ AsksForJava /\ ~("java" \in call.parts /\ call.class = "default") =>
                  registered' # "none"
<1>1. IInv /\ [Next]_vars => [Ready]_vars
  <2> SUFFICES ASSUME IInv, Next, Returns, code' = 0
               PROVE Ready
    OBVIOUS
  <2>1. pc # "idle" /\ pc # "aborted" /\ pc' = "idle"
    BY DEF Returns
  <2>2. JavaDone \/ JavaFails \/ JavaRegister
    <3>1. ~Restart /\ ~(\E c \in Call : Begin(c))
      BY <2>1 DEF Restart, Begin
    <3>2. /\ ~SoinfoDone /\ ~LoadAborts /\ ~LoadSymbols /\ ~NativeDone
          /\ ~NativeInit /\ ~NativeAborts
      BY <2>1 DEF SoinfoDone, LoadAborts, LoadSymbols, NativeDone, NativeInit,
                  NativeAborts
    <3>3. ~ReaderFails /\ ~RequiredMissing /\ ~NativeNoEnv /\ ~NativeFails /\ ~JavaNoEnv
      BY DEF ReaderFails, RequiredMissing, NativeNoEnv, NativeFails, JavaNoEnv, Return
    <3> QED
      BY <3>1, <3>2, <3>3 DEF Next
  <2>3. pc = "java"
    <3>1. JavaDone => pc = "java"
      BY DEF JavaDone
    <3>2. JavaFails \/ JavaRegister => pc = "java"
      BY DEF JavaFails, JavaRegister, Java
    <3> QED
      BY <2>2, <3>1, <3>2
  <2>4. "soinfo" \in call.parts => initSuccess /\ initialized /\ Solist \in loaded
    BY <2>3 DEF IInv, SoinfoInv, SuccessInv
  <2>5. "native" \in call.parts => nativeReady
    BY <2>3 DEF IInv, NativeInv
  <2>6. AsksForJava /\ ~("java" \in call.parts /\ call.class = "default") =>
          registered' # "none"
    <3>1. CASE JavaDone
      BY <3>1 DEF JavaDone
    <3>2. CASE JavaFails
      BY <3>2 DEF JavaFails, Lenient, Return
    <3>3. CASE JavaRegister
      <4>1. call.class # "none"
        BY DEF IInv, TypeOK, Call
      <4> QED
        BY <3>3, <4>1 DEF JavaRegister
    <3> QED
      BY <2>2, <3>1, <3>2, <3>3
  <2> QED
    BY <2>4, <2>5, <2>6
<1> QED
  BY <1>1, InvCorrect, PTL DEF Spec, ZeroMeansReady

(* NoStickyFailure: with a JNIEnv, only a failure in the call itself makes *)
(* it return anything but 0; no flag of an earlier call does.              *)
THEOREM NoStickyFailureCorrect == Spec => NoStickyFailure
<1> DEFINE Keeps == Returns /\ call.env /\ ~fault' => code' = 0
<1>1. Next => Keeps
  <2> SUFFICES ASSUME Next, Returns, call.env, ~fault' PROVE code' = 0
    OBVIOUS
  <2>1. pc # "idle" /\ pc # "aborted" /\ pc' = "idle"
    BY DEF Returns
  <2>2. JavaDone \/ JavaRegister
    <3>1. ~Restart /\ ~(\E c \in Call : Begin(c))
      BY <2>1 DEF Restart, Begin
    <3>2. /\ ~SoinfoDone /\ ~LoadAborts /\ ~LoadSymbols /\ ~NativeDone
          /\ ~NativeInit /\ ~NativeAborts
      BY <2>1 DEF SoinfoDone, LoadAborts, LoadSymbols, NativeDone, NativeInit,
                  NativeAborts
    <3>3. ~ReaderFails /\ ~RequiredMissing /\ ~NativeFails /\ ~JavaFails
      BY DEF ReaderFails, RequiredMissing, NativeFails, JavaFails
    <3>4. ~NativeNoEnv /\ ~JavaNoEnv
      BY DEF NativeNoEnv, JavaNoEnv
    <3> QED
      BY <3>1, <3>2, <3>3, <3>4 DEF Next
  <2> QED
    BY <2>2 DEF JavaDone, JavaRegister, Return
<1>2. [Next]_vars => [Keeps]_vars
  BY <1>1
<1> QED
  BY <1>2, PTL DEF Spec, NoStickyFailure
=============================================================================
