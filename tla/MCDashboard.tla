----------------------------- MODULE MCDashboard -----------------------------
(***************************************************************************)
(* An instance of DashboardService for TLC: what MCPayout defines, and the *)
(* symmetry of two invoices of one lot.                                    *)
(***************************************************************************)
EXTENDS MCPayout, DashboardService

CONSTANT d1

Alike == Permutations({i1, i2})
=============================================================================
