---------------------------- MODULE MCBatchLoad ----------------------------
(* Small instances of BatchLoad. *)
EXTENDS BatchLoad

CONSTANTS MaxRows,   \* rows of the longest file
          BadRows    \* malformed rows at most in one file

\* A malformed row keeps one arbitrary key: it is never written.
Someone == CHOOSE k \in Keys : TRUE
MCRow == {r \in Row : r.kind \in {"item", "keyless"} \/ r.key = Someone}
MCFiles == {f \in UNION {[1..n -> MCRow] : n \in 0..MaxRows} :
              Cardinality({i \in DOMAIN f : f[i].kind # "item"}) <= BadRows}
=============================================================================
