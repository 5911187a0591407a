------------------------------ MODULE MCSession ------------------------------
(* Instances of Session: two tabs of one browser.                            *)
EXTENDS Session

CONSTANTS t1, t2

TwoTabs == {t1, t2}
=============================================================================
