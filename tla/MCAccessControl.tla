--------------------------- MODULE MCAccessControl ---------------------------
EXTENDS AccessControl, TLC
CONSTANTS u1, u2, r1, r2, r3, p1, p2, p3, k1, k2, k3, invoices, payments, read, blank

MCUsers == {u1, u2}
MCRoles == {r1, r2, r3}
MCPermissions == {p1, p2, p3}
MCKeys == {k1, k2, k3}
MCResources == {invoices, payments}
MCActions == {read, blank}
(* A user with a role that holds a permission; a role and a permission nobody holds,
   which an update has left without an action. *)
MCInitial == [i \in {u1, r1, r2, p1, p2} |->
    CASE i = u1 -> Doc(k1, invoices, read, {r1}) [] i = r1 -> Doc(k1, invoices, read, {p1})
      [] i = r2 -> Doc(k2, invoices, read, {}) [] i = p1 -> Doc(k1, invoices, read, {})
      [] i = p2 -> Doc(k2, payments, blank, {})]
(* Nothing tells two requests in flight apart but what they do. *)
Symmetry == Permutations(Calls)
=============================================================================
