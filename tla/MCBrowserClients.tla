---------------------------- MODULE MCBrowserClients ----------------------------
\* TLC instances of BrowserClients.
EXTENDS BrowserClients

OnlyLast == {MaxRequests}
================================================================================
