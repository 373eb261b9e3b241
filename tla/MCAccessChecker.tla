-------------------------- MODULE MCAccessChecker --------------------------
(* Two tenants; group g1 with feed f1 and its version v1 belongs to t1, as   *)
(* does g2; g3 can be created.  u1 is admin of t1, u2 manager of g1 and      *)
(* editor of g2, u3 viewer of g1; root is a global admin.                    *)
EXTENDS AccessChecker, TLC
CONSTANTS u1, u2, u3, root, t1, t2, g1, g2, g3, f1, v1, c1, c2, c3

VersionOfFeed == v1 :> f1
Start ==
  {Tuple(Key(u1), "admin", t1), Tuple(Key(t1), "parent", g1), Tuple(Key(t1), "parent", g2),
   Tuple(Key(g1), "parent", f1), Tuple(Key(u2), "manager", g1), Tuple(Key(u2), "editor", g2),
   Tuple(Key(u3), "viewer", g1)}

Ask(o, u, s, r, x) == [op |-> o, user |-> u, tuple |-> Tuple(s, r, x)]
Requests ==
  {Ask("add", u2, Key(u3), "editor", g1), Ask("add", u2, Key(u3), "viewer", g1),
   Ask("add", u3, Key(u3), "manager", g1), Ask("add", u2, Key(u3), "manager", g1),
   Ask("remove", u1, Key(u2), "manager", g1), Ask("remove", u2, Key(u3), "viewer", g1),
   Ask("add", u2, Key(u3), "viewer", g2), Ask("add", u1, Key(u3), "member", t1),
   Ask("add", u1, [id |-> t1, ref |-> "member"], "viewer", g2),
   Ask("add", u2, [id |-> g2, ref |-> "viewer"], "viewer", v1),
   Ask("parent", u2, Key(g2), "parent", f1), Ask("parent", u1, Key(g3), "parent", f1),
   Ask("parent", u1, Key(g1), "parent", f1),
   Ask("parent", u1, Key(t2), "parent", g1), Ask("parent", root, Key(t2), "parent", g1),
   [op |-> "create", user |-> u1, tenant |-> t1]}

ASSUME OrderlyStart

Symmetric == Permutations(Call)
=============================================================================
