---------------------------- MODULE MCPoolSettings ----------------------------
(***************************************************************************)
(* The instance of PoolSettings for TLC: every combination of the built-in *)
(* pools of older releases, unchanged or customised, with pools of today.  *)
(***************************************************************************)
EXTENDS PoolSettingsProperties

Pool(labels, aliases, mode, priority, spec) ==
  [labels |-> labels, aliases |-> aliases, docker_mode |-> mode,
   priority |-> priority, spec |-> spec]

Standard == Pool({"standard"}, {"ci", "rust"}, "none", 20, "plain")
Docker == Pool({"docker"}, {}, "socket", 0, "plain")
Ci == Pool({"ci"}, {}, "none", 20, "plain")
Rust == Pool({"rust"}, {}, "none", 10, "plain")

Entry(name, pool) == [name |-> name, pool |-> pool]
Entries ==
  {Entry("ci", Ci), Entry("ci", [Ci EXCEPT !.spec = "large"]), Entry("ci", [Ci EXCEPT !.labels = {"ci", "gpu"}]),
   Entry("rust", Rust), Entry("rust", [Rust EXCEPT !.spec = "large"]),
   Entry("default", Docker), Entry("default", [Docker EXCEPT !.docker_mode = "none"]),
   Entry("standard", Standard),
   Entry("docker", [Docker EXCEPT !.labels = {"docker", "build"}]),
   Entry("deploy", Pool({"deploy"}, {"gpu"}, "none", 10, "plain"))}

\* Every choice of one entry per name, where a name may be missing.
NamesOf(E) == {x.name : x \in E}
MapOf(E) == [n \in NamesOf(E) |-> (CHOOSE x \in E : x.name = n).pool]
OldOverrides ==
  {P \in {MapOf(E) : E \in {F \in SUBSET Entries \ {{}} : Cardinality(F) = Cardinality(NamesOf(F))}} : Distinct(P)}

ShippedPools == [n \in {"standard", "docker"} |-> IF n = "standard" THEN Standard ELSE Docker]

\* A copy of the labels of standard, a pool of an older release, a changed pool.
SomeChanges ==
  {Entry("deploy", Pool({"ci"}, {"rust", "standard"}, "none", 0, "large")),
   Entry("ci", Ci), Entry("docker", [Docker EXCEPT !.spec = "large"])}

Alphabetical == [ci |-> 1, default |-> 2, deploy |-> 3, docker |-> 4, rust |-> 5, standard |-> 6]
==============================================================================
