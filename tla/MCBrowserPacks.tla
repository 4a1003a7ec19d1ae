---------------------------- MODULE MCBrowserPacks ----------------------------
(***************************************************************************)
(* An instance of BrowserPacks for TLC: a tab that is opened again after   *)
(* it died, and a pack of two versions that share a document.              *)
(***************************************************************************)
EXTENDS BrowserPacks, TLC

CONSTANTS tab, pack, doc

OneTab == {tab}
OnePack == {pack}
TwoVersions == {1, 2}
OneDoc == {doc}
Shared == [p \in Packs |-> [v \in Versions |-> Docs]]
Independent == [p \in Packs |-> [v \in Versions |-> {}]]
=============================================================================
