------------------------------- MODULE Stacks -------------------------------
(***************************************************************************)
(* Sequences whose elements are of no set known beforehand: activation     *)
(* records and what they hold, trees of any depth.                         *)
(***************************************************************************)
EXTENDS Naturals, Sequences

IsSeq(s) == s \in Seq({s[i] : i \in DOMAIN s})
=============================================================================
