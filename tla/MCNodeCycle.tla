----------------------------- MODULE MCNodeCycle -----------------------------
(* Three nodes and two services that differ in mode, in what they reserve, *)
(* in how many of their tasks a node may run and in where they may run.    *)
EXTENDS NodeCycle

Replicas == [k \in Task |-> IF k = "b1" THEN "b" ELSE "a"]

Plain == [mode |-> "replicated", reserve |-> [r \in Resource |-> 0], limit |-> 0,
          ports |-> {}, constraints |-> {}, platforms |-> {}]

Reserving(amount) == [Plain EXCEPT !.reserve = [r \in Resource |-> amount]]
On(key, equal, value) == {[key |-> key, equal |-> equal, value |-> value]}

SpecsOfA ==
  { Reserving(1), Reserving(2),
    [Reserving(1) EXCEPT !.limit = 2],
    [Plain EXCEPT !.ports = {80}],
    [Plain EXCEPT !.constraints = On("zone", FALSE, "east")] }

SpecsOfB ==
  { [Reserving(1) EXCEPT !.mode = "global", !.constraints = On("zone", TRUE, "west")],
    [Plain EXCEPT !.ports = {80}],
    [Reserving(2) EXCEPT !.platforms = {"linux"}],
    [Plain EXCEPT !.constraints = On("engine", TRUE, "old")],
    [Plain EXCEPT !.mode = "replicated-job"] }

(* n1 is the target. *)
Standings ==
  { [n \in Node |-> IF n = "n1" THEN "leader" ELSE "worker"],
    [n \in Node |-> IF n = "n2" THEN "leader" ELSE "worker"],
    [n \in Node |-> IF n = "n3" THEN "worker" ELSE IF n = "n2" THEN "leader" ELSE "reachable"],
    [n \in Node |-> IF n = "n2" THEN "leader" ELSE "reachable"] }

Zones == [n \in Node |-> CASE n = "n1" -> [zone |-> "west"]
                           [] n = "n2" -> [zone |-> "east"]
                           [] n = "n3" -> [engine |-> "old"]]

Nodes(standing, sizes, availability) ==
  [n \in Node |-> [ready |-> TRUE,
                   availability |-> IF n = "n3" THEN availability ELSE "active",
                   standing |-> standing[n],
                   capacity |-> [r \in Resource |-> sizes[n]],
                   labels |-> Zones[n],
                   platform |-> IF n = "n3" THEN "windows" ELSE "linux"]]

(* The tasks of one service are interchangeable. *)
Number(n) == CASE n = "n1" -> 1 [] n = "n2" -> 2 [] n = "n3" -> 3
Places == { f \in [Task -> Node] :
              Number(f["a1"]) <= Number(f["a2"]) /\ Number(f["a2"]) <= Number(f["a3"]) }

Sizes == { [n \in Node |-> CASE n = "n1" -> 4 [] n = "n2" -> pair[1] [] n = "n3" -> pair[2]] :
             pair \in {<<2, 2>>, <<2, 4>>, <<3, 3>>} }
OneManager == [n \in Node |-> IF n = "n2" THEN "leader" ELSE "worker"]

Placements ==
  { [specs |-> [s \in Service |-> IF s = "a" THEN a ELSE b],
     nodes |-> Nodes(OneManager, sizes, "active"), places |-> places] :
      a \in SpecsOfA, b \in SpecsOfB, sizes \in Sizes, places \in Places }

Offices ==
  { [specs |-> [s \in Service |-> Reserving(1)],
     nodes |-> Nodes(standing, [n \in Node |-> 4], availability), places |-> places] :
      standing \in Standings, availability \in {"active", "pause"},
      places \in { f \in Places : f["b1"] = "n2" } }

AllInventories == Placements \cup Offices
=============================================================================
