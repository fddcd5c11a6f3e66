-------------------------- MODULE MCBrowserSession --------------------------
EXTENDS BrowserSession, TLC
MCSymmetry == Permutations(Tabs) \cup Permutations(Calls)
=============================================================================
