---------------------------- MODULE MCResourceMerge ----------------------------
(* Documents for ResourceMerge: lists with and without names, in one order   *)
(* and another, with a name twice, a number for a name and a null; keys     *)
(* with scalars, maps and nulls; an original with and without what the     *)
(* server adds.                                                            *)
EXTENDS ResourceMerge, TLC

MCKey ==
  ServerKeys \cup {"metadata", "annotations", "revision", "name", "namespace",
                   "ownerReferences", "controller", "status", "spec", "clusterIP",
                   "ports", "nodePort", "env", "k1", "k2"}
MCValue ==
  {"true", "preview", "default", "set", "object", "original", "app", "x", "y",
   "a", "b", "c", "d", "10.0.0.1", "10.0.0.2", "30000"}
MCNumber == {"30000", "true"}

x == Scalar("x")
y == Scalar("y")
Named(name, v) == Object([name |-> Scalar(name), k1 |-> v])
Public(name, v) == Object([name |-> Scalar(name), k1 |-> v, nodePort |-> Scalar("30000")])
Unnamed(v) == Object([k1 |-> v])

\* A key of the spec is left out if it is Absent.
Spec1(ports, env) == Object([ports |-> ports, env |-> env])

Lists ==
  {Array(<<Named("a", x)>>),
   Array(<<Named("b", y), Named("a", x)>>),
   Array(<<Named("a", y), Named("c", Null)>>),
   Array(<<Unnamed(y)>>),
   Array(<<x, y>>),
   Array(<<>>)}
Envs == {Absent, x, Object([k1 |-> x]), Object([k2 |-> Template("y")])}

WithSpec(metadata, spec) == Object([metadata |-> Object(metadata), spec |-> spec])
Wanted(spec) == WithSpec([name |-> Scalar("app")], spec)

MCDesired ==
  {Wanted(Spec1(l, Object([k1 |-> x]))) : l \in Lists \cup {Absent}}
    \cup {Wanted(Spec1(Array(<<Named("a", x)>>), e)) : e \in Envs \cup {Null}}
    \cup {Wanted(Spec1(Array(<<Null, x>>), x)), Wanted(Spec1(Absent, BadTemplate)),
          Wanted(Spec1(Array(<<Named("a", x), Named("a", y)>>), x))}

FromServer(annotations, ports, env) ==
  Object([metadata |-> Object([name |-> Scalar("app"), uid |-> Scalar("original")] @@ annotations),
       spec     |-> Object([clusterIP |-> Scalar("10.0.0.1"), ports |-> ports, env |-> env]),
       status   |-> x])
Revision == [annotations |-> Object([revision |-> x, k1 |-> y])]
MCOriginals ==
  {FromServer(Revision, Array(<<Public("a", y), Public("b", x)>>), Object([k1 |-> y, k2 |-> y])),
   FromServer([n \in {} |-> Null], Array(<<Public("b", x), Public("a", x), Public("c", y)>>), x),
   FromServer([n \in {} |-> Null], Array(<<Unnamed(x), Unnamed(y)>>), Absent),
   FromServer([n \in {} |-> Null], Array(<<x, Null>>), Absent),
   FromServer(Revision, Absent, Object([k2 |-> y]))}

MCUserObjects ==
  {Wanted(Spec1(Array(<<Named("b", x), Named("d", y)>>), Object([k1 |-> y, k2 |-> y]))),
   Wanted(Spec1(Array(<<Named("d", y), Named("a", y)>>), x)),
   Wanted(Spec1(Array(<<y, y, y>>), Object([k2 |-> Object([k1 |-> x])]))),
   Wanted(Spec1(Array(<<Named("30000", x), Named("a", x)>>), Object([k1 |-> Array(<<y>>)]))),
   Wanted(Spec1(Array(<<Named("d", y)>>), Array(<<x>>))),
   Wanted(Object([clusterIP |-> Null, ports |-> Array(<<Named("a", x), Named("a", y)>>)]))}
=============================================================================
