---------------------------- MODULE MCZisServer ----------------------------
EXTENDS ZisServer

\* Services: a plain space-switch one, the same with a SAF check, and a
\* current-primary one.
Svc(n, v, ss, saf) == [name |-> n, version |-> v, ss |-> ss, saf |-> saf]

Plug(n, nick, v, l, d, svcs) ==
  [name |-> n, nickname |-> nick, version |-> v, lpa |-> l, dynlink |-> d, header |-> TRUE, services |-> svcs]

\* Releases of an LPA plug-in, the first of which is the dynamic linkage
\* module: the second asks for a SAF check and has one more service, the third
\* is back in private storage.
P1 == Plug("p", "P", 1, TRUE, TRUE, <<Svc("s", 1, FALSE, NoSaf)>>)
P2 == Plug("p", "P", 2, TRUE, FALSE, <<Svc("s", 2, FALSE, "A"), Svc("t", 1, FALSE, NoSaf)>>)
P3 == Plug("p", "P", 3, FALSE, FALSE, <<Svc("s", 2, TRUE, NoSaf)>>)

\* Plug-ins that must not be installed: a second owner of a nickname, and a bad
\* header.  The third kind is a plug-in that PARMLIB names twice.
Nick   == Plug("d", "P", 1, FALSE, FALSE, <<>>)
Header == [Plug("p", "H", 1, FALSE, FALSE, <<Svc("s", 2, TRUE, NoSaf)>>) EXCEPT !.header = FALSE]

ParmsRestart == {<<P1, P1>>, <<P2, Header>>, <<Nick, P3>>}

\* What earlier releases left after a normal end.  One without SAF support made
\* the anchor of the first service; a later one reused it, and made its own for
\* a service that it added.
Old(p, v) == [path |-> p, version |-> v, ss |-> FALSE, auth |-> FALSE, saf |-> NoSaf, serve |-> NoCode,
              serviceVersion |-> 1, active |-> FALSE, discarded |-> FALSE]

LeftP == {[anchors |-> <<>>, plugins |-> <<>>],
          [anchors |-> <<Old(<<"p", "s">>, 1), Old(<<"p", "t">>, ANCHOR_VERSION + 1)>>, plugins |-> <<"p">>]}

Req(v, p) == [version |-> v, permits |-> p]
MCRequests == {Req(2, {"A"}), Req(ANY_VERSION, {})}
=============================================================================
