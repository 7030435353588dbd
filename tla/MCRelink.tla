------------------------------ MODULE MCRelink ------------------------------
(* Instances of Relink small enough for TLC: art holds the JNI table, in a *)
(* mapping of its own; app depends on art.                                 *)
EXTENDS Relink, TLC

CONSTANTS t1, t2, app, art, appText, appRelro, artTable, artData

MCThread == {t1, t2}
MCOneThread == {t1}
MCLib == {app, art}
MCCallMaps == (app :> <<appRelro>>) @@ (art :> <<artTable>>)
MCMapping == {appText, appRelro, artTable, artData}
MCMaps == (app :> <<appText, appRelro>>) @@ (art :> <<artTable, artData>>)
MCWritable0 == {artData}

(* The groups when both are of one namespace: art has a parent in it.      *)
MCGroup ==
  [l \in MCLib |-> [lost \in SUBSET MCLib |->
     IF l = app THEN IF app \in lost THEN <<>> ELSE <<app, art>>
                ELSE IF MCLib \subseteq lost THEN <<>> ELSE <<art>>]]

(* Each has a namespace of its own: art has no parent in its own.          *)
MCGroupApart ==
  [l \in MCLib |-> [lost \in SUBSET MCLib |->
     IF l \in lost THEN <<>> ELSE IF l = app THEN <<app, art>> ELSE <<art>>]]

MCSpace == (app :> "default") @@ (art :> "default")
MCSpaces == (app :> "default") @@ (art :> "art")
MCRelinks == {"manual", "system"}
MCAll == {"manual", "system", "hook"}
MCNames == {<<app>>, <<art>>, <<NoLib>>}
MCNamePairs == {<<app, art>>}
MCSymmetry == Permutations(MCThread)
=============================================================================
