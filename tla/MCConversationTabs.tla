-------------------------- MODULE MCConversationTabs --------------------------
(***************************************************************************)
(* Instances of ConversationTabs for TLC.                                  *)
(***************************************************************************)
EXTENDS ConversationTabs, TLC

CONSTANTS t1, t2, p1, p2

TwoTabs == {t1, t2}
OneProfile == {p1}
TwoProfiles == {p1, p2}
Symmetry == Permutations(TwoTabs) \cup Permutations(TwoProfiles)
ScopeAll == {"switch", "fail", "legacy"}
ScopeFail == {"fail"}

\* The search stops at a re-adoption.
NothingReadopted == ~readopted

\* Late acts are searched apart from clears that are cut off.
LateOrCut == late = 0 \/ cuts = 0
=============================================================================
