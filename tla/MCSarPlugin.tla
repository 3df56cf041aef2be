----------------------------- MODULE MCSarPlugin ----------------------------
(* An instance of SarPlugin for TLC: two resources that may share a pair   *)
(* or not, and one pair of each kind.                                      *)
EXTENDS SarPlugin

CONSTANTS a1, a2, k1, k2, kIntrinsic, kRejected

MCApps == {a1, a2}
MCKeys == {k1, k2, kIntrinsic, kRejected}
=============================================================================
