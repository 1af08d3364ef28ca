--------------------------- MODULE MCApplication ---------------------------
(* Finite inputs of Application: for each policy the small slices, hash    *)
(* builders and configurations that bring out its cases; small workloads   *)
(* of attempts; and groups of hosts with short windows.                    *)
EXTENDS Application

Ids == {"a", "b", "c"}

B(id, weight, load) ==
  [id |-> id, weight |-> weight, load |-> load, status |-> "ready",
   healthy |-> TRUE, priority |-> 0, allow_in_panic |-> TRUE,
   locality |-> 0, locality_weight |-> 1]

Sick(c)     == [c EXCEPT !.healthy = FALSE]
Draining(c) == [c EXCEPT !.status = "draining"]

\* Every slice of distinct identities from V, in every order.
Slicings(V) ==
  {s \in UNION {[1..n -> V] : n \in 0..3} :
     \A i, j \in DOMAIN s : i # j => s[i].id # s[j].id}

\* Every collection of n of the sequence W, in the order of W.
Collections(W, n) ==
  LET Ascending == {f \in [1..n -> DOMAIN W] : \A i, j \in 1..n : i < j => f[i] <= f[j]}
  IN  {[i \in 1..n |-> W[f[i]]] : f \in Ascending}

Twins == {<<B("a", 1, 0), B("a", 2, 0)>>, <<B("a", 1, 0), B("b", 1, 0), B("a", 1, 0)>>}

Turns3 == {<<>>, <<B("b", 2, 0)>>, <<Sick(B("b", 2, 0)), Draining(B("a", 1, 0))>>,
           <<B("a", 1, 0), B("b", 2, 0)>>, <<B("b", 2, 0), B("a", 1, 0)>>,
           <<B("c", 1, 0), B("a", 1, 0), B("b", 2, 0)>>,
           <<B("a", 1, 0), Sick(B("c", 1, 0)), B("b", 1, 0)>>} \cup Twins

\* More weight than fits a sum.
Heavy == {<<B("a", 1000, 0), B("b", 1, 0)>>}

Burdened == Slicings({B("a", 1, 0), B("a", 1, 2), B("b", 2, 2), B("c", 1, 0), B("c", 1, 1000)})
            \cup {<<Sick(B("a", 1, 0)), B("b", 1, 0)>>} \cup Heavy

Weighed == Slicings({B("a", 1, 0), B("a", 2, 0), B("b", 1, 0), B("c", 2, 0),
                     Draining(B("c", 1, 0))}) \cup Twins

Tabled == Slicings({B("a", 1, 0), B("b", 2, 0), B("c", 2, 0), Sick(B("b", 1, 0))}) \cup Twins
          \cup {<<B("a", 2, 0), B("b", 2, 0)>>, <<B("a", 1, 0), B("b", 1, 0)>>}

At(p, weight, healthy, panics) ==
  [B("a", weight, 0) EXCEPT !.priority = p, !.healthy = healthy, !.allow_in_panic = panics]

Ranked == UNION {Collections(<<At(0, 1, TRUE, TRUE), At(0, 200, FALSE, FALSE), At(0, 1, FALSE, TRUE),
                   At(1, 1, TRUE, FALSE), At(1, 200, FALSE, TRUE), Draining(At(1, 1, TRUE, TRUE)),
                   At(2, 3, TRUE, TRUE), At(2, 2, FALSE, FALSE)>>, n) : n \in 0..3}
          \cup {<<At(0, 600, TRUE, TRUE), At(0, 500, FALSE, TRUE)>>,
                <<At(0, 600, FALSE, TRUE), At(1, 500, FALSE, TRUE)>>}

In(l, weight, c) == [c EXCEPT !.locality = l, !.locality_weight = weight]

Located == UNION {Collections(<<In(0, 1, At(0, 1, TRUE, TRUE)), In(0, 1, At(0, 200, FALSE, TRUE)),
                    In(1, 2, At(0, 1, TRUE, TRUE)), In(1, 2, At(0, 1, FALSE, FALSE)),
                    In(1, 1, At(0, 1, TRUE, TRUE)), In(1, 1, At(1, 1, FALSE, TRUE)),
                    In(0, 3, At(1, 2, TRUE, TRUE))>>, n) : n \in 0..3}
           \cup {<<In(0, 6, At(0, 1, TRUE, TRUE)), In(1, 4, At(0, 1, TRUE, TRUE))>>,
                 <<In(0, 6, At(0, 1, TRUE, TRUE)), In(1, 5, At(0, 1, TRUE, TRUE))>>,
                 <<In(0, 6, At(0, 1, TRUE, TRUE)), In(1, 5, At(0, 1, TRUE, TRUE)),
                   In(1, 5, At(0, 1, FALSE, FALSE))>>}

MCSlices == [few |-> {<<>>, <<B("a", 1, 0)>>}, none |-> {<<>>}, turns |-> Turns3, heavy |-> Turns3 \cup Heavy, loaded |-> Burdened, weighed |-> Weighed, tabled |-> Tabled,
             ranked |-> Ranked, located |-> Located]

Costs == [h \in 0..3 |-> <<3, 1, 1, 0>>[h + 1]]

Map(x, y, z) == [id \in Ids |-> CASE id = "a" -> x [] id = "b" -> y [] id = "c" -> z]

\* The first builder sets all apart, the second lets some collide.
Builders ==
  {[score |-> <<Map(1, 3, 2), Map(2, 0, 1)>>, owner |-> Map(2, 0, 1), request |-> <<1, 4>>,
    point |-> Map([r \in 0..5 |-> r], [r \in 0..5 |-> 4 - (r % 4)], [r \in 0..5 |-> 2 * r]),
    offset |-> Map(0, 1, 5), skip |-> Map(3, 1, 2), order |-> Map(2, 0, 1)],
   [score |-> <<Map(2, 2, 2), Map(0, 1, 0)>>, owner |-> Map(0, 0, 1), request |-> <<0, 3>>,
    point |-> Map([r \in 0..5 |-> 1], [r \in 0..5 |-> 1], [r \in 0..5 |-> r]),
    offset |-> Map(1, 1, 1), skip |-> Map(0, 0, 2), order |-> Map(1, 1, 1)]}

NoHash == [score |-> <<>>]

P(kind, inputs, config) == [kind |-> kind, hash |-> NoHash, config |-> config, inputs |-> inputs]

Hashed(kind, inputs, config) ==
  {[P(kind, inputs, config) EXCEPT !.hash = h] : h \in Builders}

Panic(overprovisioning, threshold, mode) ==
  [overprovisioning |-> overprovisioning, panic_threshold |-> threshold, panic_mode |-> mode]

MCPolicies ==
  {P("round_robin", "turns", 0), P("least_loaded", "loaded", 0),
   P("smooth_weighted_round_robin", "turns", 0), P("random", "turns", 0),
   P("weighted_random", "heavy", 0), P("power_of_two_choices", "loaded", 0)}
  \cup Hashed("rendezvous", "weighed", 0)
  \cup Hashed("weighted_rendezvous", "weighed", 0)
  \cup Hashed("bounded_load", "loaded", [factor |-> 100])
  \cup Hashed("bounded_load", "loaded", [factor |-> 150])
  \cup Hashed("ring_hash", "tabled", [replicas |-> 2, max_nodes |-> 6])
  \cup Hashed("maglev", "tabled", [table_size |-> 2])
  \cup Hashed("maglev", "tabled", [table_size |-> 5])
  \cup {P("priority", "ranked", Panic(o, t, m)) :
           o \in {140}, t \in {50}, m \in PanicModes}
  \cup {P("priority", "ranked", Panic(100, 0, "use_all")),
        P("locality", "located", Panic(140, 50, "use_all"))}

AllPolicies == MCPolicies \cup {P("round_robin", "few", 0), P("random", "none", 0)}

Hosts(n, capacity, minimum_samples) ==
  [hosts |-> n, capacity |-> capacity, minimum_samples |-> minimum_samples]

MCWindows == {Hosts(0, 1, 0), Hosts(1, 3, 2), Hosts(3, 2, 1), Hosts(4, 1, 1)}

MCBounds == <<1>>

MCWeights == [success |-> 0, failure |-> 1, overloaded |-> 2]

Ejecting(hosts, samples, tenths, percent, healthy) ==
  [minimum_hosts |-> hosts, minimum_samples |-> samples, deviation_tenths |-> tenths,
   max_ejection_percent |-> percent, minimum_healthy |-> healthy]

MCOutlierConfigs ==
  {Ejecting(2, 1, 5, 50, 1), Ejecting(3, 1, 0, 100, 0), Ejecting(1, 2, 10, 70, 3)}

Workload(p, observed, attempts, sampled, group_of) ==
  [policy |-> p, observed |-> observed, attempts |-> attempts,
   sampled |-> sampled, group |-> group_of]

MCWorkloads ==
  {Workload(p, FALSE, {}, {}, Hosts(0, 1, 0)) : p \in MCPolicies}
  \cup {Workload(P("round_robin", "few", 0), TRUE, {}, {}, Hosts(0, 1, 0)),
        Workload(P("random", "none", 0), TRUE, {}, {2}, Hosts(0, 1, 0)),
        Workload(P("random", "none", 0), FALSE, Attempt, {1}, Hosts(0, 1, 0))}
  \cup {Workload(P("random", "none", 0), FALSE, {}, {}, g) : g \in MCWindows}

Symmetry == Permutations(Attempt)

=============================================================================
