---------------------------- MODULE MCCollector ----------------------------
(* Sources for TLC: a bank's two rates are scraped from its page, a third   *)
(* needs the page rendered by the browser.                                  *)
EXTENDS Collector

CONSTANTS bid, ask, rendered, page1

MCUrlOf == [s \in Source |-> page1]
MCKindOf == [s \in Source |-> IF s = rendered THEN "chromedp" ELSE "plain"]
MCInterval == [s \in Source |-> 2]
=============================================================================
