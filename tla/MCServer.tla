------------------------------ MODULE MCServer ------------------------------
(* Server with the heads a browser, another site and a broken client send. *)
EXTENDS Server

Head0(method, path, fields, more) == [line |-> 200, method |-> method, path |-> path, fields |-> fields, more |-> more]
WebSocket == << <<"upgrade", "websocket">>, <<"version", 13>>, <<"key", "good">> >>

OurPage == Head0("GET", "/ws", << <<"host", "own">>, <<"origin", "same">> >> \o WebSocket, FALSE)
OtherSite == Head0("GET", "/ws", << <<"host", "own">>, <<"origin", "other">> >> \o WebSocket, FALSE)
TwoHosts == Head0("GET", "/ws", << <<"host", "other">>, <<"host", "own">> >> \o WebSocket, FALSE)
Hasty == Head0("GET", "/ws", << <<"host", "own">> >> \o WebSocket, TRUE)
Page == Head0("GET", "/", << <<"host", "own">> >>, FALSE)
Old == [Page EXCEPT !.line = 505]

Requests == [r1 |-> 2, r2 |-> 1, r3 |-> 0, w1 |-> 1, w2 |-> 1, w3 |-> 0]
Pings == [r1 |-> 0, r2 |-> 0, r3 |-> 0, w1 |-> 1, w2 |-> 0, w3 |-> 0]

AnyHead == [w1 |-> {OurPage, OtherSite, TwoHosts, Hasty, Page, Old}, w2 |-> {OurPage}, w3 |-> {OurPage}]
=============================================================================
