------------------------------ MODULE Workspace ------------------------------
(***************************************************************************)
(* The loader of the workspace (embodied/workspace.py) and what execution  *)
(* makes of the catalogue it fills (execution/controller.py).  A file is a *)
(* record: kind is its directory, defect what is wrong with its text, rank *)
(* its place in the order of paths, ours whether its path names the setup, *)
(* asm the assembly it belongs to and target what it runs on.              *)
(***************************************************************************)
EXTENDS FiniteSets, Naturals

\* What the checks of one file find, in the order they are made.
Unreadable == {"import"}
BadContract == {"contract_type", "kind", "convention", "schema"}
BadExport == {"missing_export", "ambiguous_export", "plural_type"}
BadItem == {"shape", "no_id"}
Errors == Unreadable \union BadContract \union BadExport \union BadItem
Warnings == {"schema_accepted", "no_contract", "no_provenance"}

Sound(f) == f.defect \notin Errors

\* A second file with the id of one of its kind is an error too, and not
\* loaded.
Repeated(files, f) ==
  /\ Sound(f)
  /\ \E g \in files : /\ Sound(g) /\ g.kind = f.kind /\ g.id = f.id
                      /\ g.rank < f.rank

Staged(files) == {f \in files : Sound(f) /\ ~Repeated(files, f)}

\* inspect_workspace_assets: the files with an error.  Warnings count only
\* under the strict profile, which nothing in the program asks for.
InspectErrors(files) == files \ Staged(files)

\* load_workspace_assets raises on any error, and on an id of the framework's.
Loads(files, builtin) ==
  /\ InspectErrors(files) = {}
  /\ \A f \in files : [kind |-> f.kind, id |-> f.id] \notin builtin

\* _workspace_candidates: the assemblies with one deployment and one adapter.
Of(files, k, a) == {f \in files : f.kind = k /\ f.asm = a}
Candidates(files) ==
  {f \in files : /\ f.kind = "assembly"
                 /\ Cardinality(Of(files, "deployment", f.id)) = 1
                 /\ Cardinality(Of(files, "adapter", f.id)) = 1}
=============================================================================
