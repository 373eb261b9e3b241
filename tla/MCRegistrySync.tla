--------------------------- MODULE MCRegistrySync ---------------------------
(* Two feeds, one operator, two agencies; f1 has a version with one agency   *)
(* and one with both, f2 has none.                                           *)
EXTENDS RegistrySync, TLC
CONSTANTS f1, f2, o1, a1, a2, v1, v2, plain, tagged

AgenciesByVersion == (v1 :> {a1}) @@ (v2 :> {a1, a2})
VersionsByFeed == (f1 :> {v1, v2}) @@ (f2 :> {})

Feeds == {f1 :> plain, f2 :> plain, (f1 :> tagged) @@ (f2 :> plain)}
Associates(S) == o1 :> [content |-> plain, associated |-> S]
Operators ==
  {Empty, Associates({<<f1, a1>>}), Associates({<<f1, a2>>, <<f2, NoAgency>>}),
   Associates({<<f1, a1>>, <<f1, a2>>})}
Requests ==
  {[feeds |-> F, operators |-> O, hideUnseen |-> h, hideUnseenOperators |-> h,
    setPublic |-> IF h THEN FALSE ELSE NoChange] : F \in Feeds, O \in Operators, h \in BOOLEAN}

=============================================================================
