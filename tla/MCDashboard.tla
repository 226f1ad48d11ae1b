----------------------------- MODULE MCDashboard -----------------------------
(* Dashboard with small caches; the parts that do not meet explored one at a time. *)
EXTENDS Dashboard, TLC
CONSTANTS s1, s2
MCTtl == [catalog |-> 2, snapshot |-> 2, guidance |-> 1]
Symmetry == Permutations(Sessions)
Unused(functions) == \A c \in functions : entries[c] = {}
\* The bundled catalog only answers calls for the catalog.
CatalogApart ==
  syncs > 0 \/ bundle # "good" \/ (\E e \in entries["catalog"] : e.value.bundled) =>
    /\ Unused({"snapshot", "guidance"})
    /\ \A s \in Sessions : at[s] = "fetch" => call[s] = "catalog"
PageOpen == kept # <<>> \/ \E s \in Sessions : page[s] # "live"
\* The page is opened beside commands nobody cuts off.
PageApart == PageOpen => cuts = 0 /\ edits <= 1 /\ now <= 1 /\ commands <= 1
\* A command is cut off after one edit at most.
CutsApart == cuts > 0 => edits <= 1
\* The live view and the evidence share only the process: one of them stays as it was.
LiveUnused == Unused(Functions) /\ at = [s \in Sessions |-> "idle"] /\ syncs = 0 /\ bundle = "good"
EvidenceApart ==
  /\ PageOpen \/ commands > 0 \/ edits > 0 =>
       /\ LiveUnused /\ selected \in [Sessions -> {[station |-> "Boston", ofs |-> FALSE]}]
       /\ Cardinality({s \in Sessions : page[s] # "live"}) <= 1 /\ (now = 0 \/ PageOpen)
  /\ ~LiveUnused => data = "none"
\* The versions are alike: begin with one of them.
OneVersion == edits = 0 => code = "v0"
Apart == CatalogApart /\ PageApart /\ CutsApart /\ EvidenceApart /\ OneVersion
=============================================================================
