------------------------------ MODULE MCVault ------------------------------
(***************************************************************************)
(* Instances of Vault for TLC: three calls in the combinations in which    *)
(* they meet.                                                              *)
(***************************************************************************)
EXTENDS Vault

CONSTANTS c1, c2, c3

Asks(op, project, label) == [op |-> op, project |-> project, label |-> label]

Workload(a, b, c) == [x \in Calls |-> CASE x = c1 -> a [] x = c2 -> b [] x = c3 -> c]

MCWorkloads ==
  LET put == Asks("put", <<"redaktly">>, <<"github-pat">>)
      get == Asks("get", <<"redaktly">>, <<"github-pat">>)
  IN {\* two agents store under one name, and git asks for it
      Workload(put, put, get),
      \* two entries of one new project, and git reports a success
      Workload(put, Asks("put", <<"redaktly">>, <<"openai-key">>),
               Asks("erase", <<"redaktly">>, <<"github-pat">>)),
      \* two projects, and paths that meet only by their "/"
      Workload(put, Asks("put", <<"redaktly", "ci">>, <<"key">>),
               Asks("get", <<"redaktly">>, <<"ci", "key">>)),
      \* one label, asked for in the project that has it and in another
      Workload(Asks("put", <<"ferryman">>, <<"github-pat">>),
               Asks("get", <<"ferryman">>, <<"github-pat">>), get)}

\* The project an edit may name: another one's, in the last two workloads.
MCNotedProjects == {<<"redaktly">>}

=============================================================================
