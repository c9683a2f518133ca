-------------------------- MODULE MCPayloadDeployment --------------------------
(* Two hosts, each with one command that may outlive its wait, two payloads. *)
EXTENDS PayloadDeployment, TLC

\* Hosts, versions, commands and process numbers are interchangeable.
Symmetry == Permutations(Hosts) \union Permutations(Versions)
                \union Permutations(Slots) \union Permutations(Pids)

=============================================================================
