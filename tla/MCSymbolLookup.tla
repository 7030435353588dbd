--------------------------- MODULE MCSymbolLookup ---------------------------
(* Instances of SymbolLookup small enough for TLC: four libraries and      *)
(* three names, two of which have the same hash; the tables of a library   *)
(* are made of its symbols here, as a static linker makes them.            *)
EXTENDS SymbolLookup, TLC

CONSTANTS l1, l2, l3, l4, foo, bar, baz, v1

MCHash == foo :> 2 @@ bar :> 2 @@ baz :> 3
MCElfHash == foo :> 0 @@ bar :> 1 @@ baz :> 0

Greatest(S) == IF S = {} THEN 0 ELSE CHOOSE i \in S : \A j \in S : j <= i
Least(S) == IF S = {} THEN 0 ELSE CHOOSE i \in S : \A j \in S : i <= j

(* A library with these symbols, of which those from offset on are hashed. *)
Library(sym, offset, tables, versioned, index) ==
  LET all == 1 .. Len(sym)
      gnu(i) == MCHash[sym[i].name] % 2
      sysv(i) == MCElfHash[sym[i].name] % 2
  IN  [sym |-> sym, offset |-> offset,
       gnu |-> "gnu" \in tables, sysv |-> "sysv" \in tables,
       nbuckets |-> 2,
       first |-> [k \in 0 .. 1 |-> Least({i \in all : i >= offset /\ gnu(i) = k})],
       nlists |-> 2,
       head |-> [k \in 0 .. 1 |-> Greatest({i \in all : sysv(i) = k})],
       next |-> [i \in all |-> Greatest({j \in 1 .. i - 1 : sysv(j) = sysv(i)})],
       versioned |-> versioned,
       verdef |-> [v \in {v1} |-> index]]

Sym(s, bind, defined, shown, index, old) ==
  [name |-> s, bind |-> bind, defined |-> defined, shown |-> shown,
   ver |-> index, old |-> old]
Plain(s) == Sym(s, "global", TRUE, TRUE, 1, FALSE)
Import(s) == Sym(s, "global", FALSE, TRUE, 1, FALSE)

Both == {"gnu", "sysv"}
SysvOnly == Library(<<Import(bar), Plain(foo)>>, 2, {"sysv"}, FALSE, 1)
MCImage ==
  {Library(<<Import(foo), Plain(bar), Plain(baz)>>, 2, {"gnu"}, FALSE, 1),
   Library(<<Import(baz), Plain(bar), Plain(foo)>>, 2, Both, FALSE, 1),
   Library(<<Sym(baz, "local", TRUE, TRUE, 0, FALSE), Sym(foo, "global", TRUE, TRUE, 2, TRUE),
             Sym(foo, "weak", TRUE, TRUE, 3, FALSE), Sym(bar, "global", TRUE, FALSE, 1, FALSE),
             Plain(baz)>>, 2, Both, TRUE, 2),
   SysvOnly}

(* A diamond with two circles, and a chain that leads back to itself, once *)
(* in a namespace of one of its libraries, which no library of it needs:   *)
(* without FLAG_NEW_SOINFO that one is out of reach.                       *)
Diamond == l1 :> <<l2, l3>> @@ l2 :> <<l4, l1>> @@ l3 :> <<l3, l4>> @@ l4 :> <<>>
Line == l1 :> <<l2>> @@ l2 :> <<l3>> @@ l3 :> <<l1>> @@ l4 :> <<l1>>

MCProcess ==
  UNION {[image : {f \in [{l1, l2, l3, l4} -> MCImage] :
                     f[l2] # SysvOnly /\ f[l4] = SysvOnly},
          lp64 : w[6], children : {w[1]}, primary : {w[2]}, secondary : {w[3]},
          global : {w[4]}, symbolic : {w[5]}] :
         w \in {<<Diamond, {l1, l2, l3, l4}, {}, <<l3>>, {l2}, {TRUE}>>,
                <<Line, {l1, l2, l3}, {}, <<l3, l2>>, {}, {FALSE}>>,
                <<Line, {l4}, {l3}, <<>>, {l4}, BOOLEAN>>}}
MCPrefix == {{foo, bar}, {baz}}
=============================================================================
