-------------------------- MODULE MCScrapeSessions --------------------------
(* ScrapeSessions for TLC: two popups scrape a page each.                  *)
EXTENDS ScrapeSessions
=============================================================================
