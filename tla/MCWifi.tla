------------------------------- MODULE MCWifi -------------------------------
(* The Wi-Fi page, its job and one more caller of the modem.              *)
EXTENDS WifiUi

CONSTANTS n1, n2

(* Lists that disagree on what there is to click. *)
EmptyOrOne == {<<>>, <<n1>>}

(* Two that disagree on what the first row is. *)
OneOrTwo == {<<n1>>, <<n2, n1>>}
=============================================================================
