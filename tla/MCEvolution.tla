---------------------------- MODULE MCEvolution ----------------------------
(* Small projects for Evolution: one document, one generated test, one      *)
(* proposal fixture the source digest skips, and the protected policy.      *)
EXTENDS Evolution

CONSTANTS doc, test, fixture, policy, original, byHand, docA, testA, fixtureB, docB,
          candA, candB

FewPaths == {doc, test, fixture, policy}
StartTree == [q \in FewPaths |-> IF q \in {doc, policy} THEN original ELSE Absent]
Make(path, content) == [path |-> path, operation |-> "create", content |-> content]
Swap(path, content) == [path |-> path, operation |-> "replace", content |-> content]

\* One replaces and creates; the other touches the excluded fixture and the
\* same document.
TwoCandidates ==
  [x \in {candA, candB} |-> IF x = candA THEN <<Swap(doc, docA), Make(test, testA)>>
                            ELSE <<Make(fixture, fixtureB), Swap(doc, docB)>>]

\* The candidates' bytes can be told apart from all others.
ASSUME CandidatesDiffer == DistinctBytes
=============================================================================
