--------------------------- MODULE MCServiceScores ---------------------------
(* One service, two attributes that may be worth nothing or much.          *)
EXTENDS ServiceScores, TLC

MCPoints == {[privacy |-> 0, trust |-> 0], [privacy |-> 20, trust |-> 60]}

\* A middling service: the points above take it over the cap and the bounds.
MCListing == [kycLevel |-> 1, onionOrI2p |-> TRUE, monero |-> FALSE, approvedRecently |-> TRUE,
              tosUnread |-> TRUE, years |-> "NEW", registered |-> FALSE, incidentPenalty |-> -12]

\* A transaction gives the service an attribute, takes one away or keeps them.
MCChanges == {NoChange} \cup [add : {{a} : a \in Attributes}, remove : {{}}]
               \cup [add : {{}}, remove : {{a} : a \in Attributes}]

Symmetry == Permutations(Admins) \cup Permutations(Attributes)
=============================================================================
