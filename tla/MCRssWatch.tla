----------------------------- MODULE MCRssWatch -----------------------------
(* Instances of RssWatch for TLC: two filings of one date and a later one. *)
EXTENDS RssWatch

Dates == <<1, 1, 2>>
OneDate == <<1>>

=============================================================================
