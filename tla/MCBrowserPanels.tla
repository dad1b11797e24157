--------------------------- MODULE MCBrowserPanels ---------------------------
EXTENDS BrowserPanels
CONSTANTS p1, m1, r1, r2
==============================================================================
