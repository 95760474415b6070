---------------------------- MODULE MCPostprocess ----------------------------
(* Instances of Postprocess for TLC: the nodes that patterns are made of.    *)
EXTENDS Postprocess

CONSTANTS a, b

MCNode(k, n, t, i) == [kind |-> k, name |-> n, target |-> t, number |-> i]

Capture(n) == MCNode("capture", n, "none", 0)
ByName(k, n) == MCNode(k, n, "name", 0)
ByNumber(k, i) == MCNode(k, NoName, "number", i)
CallRoot == MCNode("call", NoName, "root", 0)

(* Every kind of reference, by name, by number and to the root.              *)
MixedNodes ==
  {Capture(NoName), Capture(a), Capture(b), CallRoot}
    \cup {ByName(k, a) : k \in Kinds \ {"capture"}}
    \cup {ByNumber(k, 2) : k \in Kinds \ {"capture"}}

(* Captures that share names, with references between and inside them.       *)
NamedNodes == {Capture(a), Capture(b), ByName("back_ref", a), ByName("conditional", a)}

(* Unnamed captures among named ones, called and tested.                     *)
CalledNodes ==
  {Capture(NoName), Capture(a), ByName("call", a), ByName("conditional", a),
   ByNumber("call", 2)}

Over(nodes, length) == UNION {[1 .. k -> nodes] : k \in 1 .. length}

MCPatterns == Over(MixedNodes, 3) \cup Over(CalledNodes, 4) \cup Over(NamedNodes, 5)
=============================================================================
