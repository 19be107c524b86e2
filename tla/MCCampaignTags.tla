--------------------------- MODULE MCCampaignTags ---------------------------
(***************************************************************************)
(* Model-checking instances of CampaignTags.                               *)
(***************************************************************************)
EXTENDS CampaignTags, TLC

CONSTANTS c1, c2, m1, m2, k1, s1, w1

IdSymmetry == Permutations({m1, m2}) \cup Permutations({c1, c2})

\* The window covers the day of the sales.  ENDED does to tags what DRAFT does.
SaleDay == {2}
DraftOrActive == {"DRAFT", "ACTIVE"}
OneWindow == {<<2, 2>>}
=============================================================================
