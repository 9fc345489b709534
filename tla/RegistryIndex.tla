---------------------------- MODULE RegistryIndex ----------------------------
(***************************************************************************)
(* The capability index a SwarmRegistry stands for: which of a set of      *)
(* agents it holds, what a lookup returns and what its status shows        *)
(* (internal/registry/registry.go, swarmregistry_controller.go).  Only     *)
(* operators.                                                              *)
(*                                                                         *)
(* An agent is a record with registry, the registry it names or Nil, ready *)
(* and caps, a set of [name, tags].  Agent names are numbers, which gives  *)
(* them the order that strings have.                                       *)
(***************************************************************************)
EXTENDS Naturals, FiniteSets, FiniteSetsExt

CONSTANT Nil

\* The agents, among those that exist, that name this registry.
Registered(agents, registry) ==
  {a \in DOMAIN agents : agents[a].registry = registry}

Capable(agents, registry) == {a \in Registered(agents, registry) : agents[a].caps # {}}

\* A bucket keeps the capabilities its agents had when it was built.
Rebuild(agents, registry) == [a \in Capable(agents, registry) |-> agents[a].caps]

\* Candidates come from every registry's bucket.
candidates(buckets, capability, tags) ==
  {a \in UNION {DOMAIN buckets[k] : k \in DOMAIN buckets} :
     \E k \in DOMAIN buckets : a \in DOMAIN buckets[k] /\
       \E c \in buckets[k][a] : c.name = capability /\ tags \subseteq c.tags}

\* The agents a lookup may return.  Round-robin hashes the capability: for as
\* long as the candidates stay the same so does the answer.
Resolve(buckets, capability, tags, strategy) ==
  LET found == candidates(buckets, capability, tags)
  IN  CASE found = {} -> {Nil}
        [] strategy \in {"random", "round-robin"} -> found
        [] OTHER -> {Min(found)}

buildSnapshot(bucket) ==
  [n \in UNION {{c.name : c \in bucket[a]} : a \in DOMAIN bucket} |->
    LET with == {a \in DOMAIN bucket : \E c \in bucket[a] : c.name = n}
    IN  [agents |-> with,
         tags |-> UNION {UNION {c.tags : c \in {d \in bucket[a] : d.name = n}} : a \in with}]]

buildFleet(agents, registry) ==
  [a \in Registered(agents, registry) |->
    [ready |-> agents[a].ready, capabilities |-> {c.name : c \in agents[a].caps}]]

\* The status of a registry; capabilitiesEqual and fleetEqual compare it.
Contents(agents, registry) ==
  [capabilities |-> buildSnapshot(Rebuild(agents, registry)), fleet |-> buildFleet(agents, registry)]
=============================================================================
