----------------------------- MODULE MCSqlGate -----------------------------
(* main opens group g with task t in it, t opens group h with task u in it. *)
EXTENDS SqlGate, TLC

CONSTANTS m, t, u, g, h

OpenedBy == g :> m @@ h :> t
SpawnedIn == t :> g @@ u :> h
GroupsAround == m :> {} @@ t :> {g} @@ u :> {g, h}
=============================================================================
