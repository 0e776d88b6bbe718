----------------------------- MODULE MCZisCore -----------------------------
(* An instance of CoreServices for TLC. *)
EXTENDS CoreServices

\* The plug-in is asked for or not; LPA dev mode is set in the JCL and, in the
\* member, overridden, continued, commented out or left incomplete.  The fourth
\* member has a continuation that is too long.  The fifth has a lone backslash
\* in front of a comment and inside a continuation, where the star is part of
\* the value, an empty record, and a text that fills the buffer.
MCJcls == {<< <<"DEV_MODE_LPA", "=", "ON">>, <<"COLD">> >>}
MCMembers ==
  {<< <<"*", "DYNBASE", "=", CONT>>, <<"ZWES.PLUGIN.DYNBASE", "=", "ZWESISDL">>, <<"DEV_MODE_LPA", "=", CONT>>, <<"ON">> >>,
   << <<"ZWES.PLUGIN.DYNBASE", "=", CONT>>, <<"*", "ZWESISDL">>, <<"DEV_MODE_LPA", "=", "OFF">> >>,
   << <<"*", "DEV_MODE_LPA", "=", "OFF">>, <<"AUTH.CLASS", "=", "ZOWE">>, <<"DEV_MODE_LPA", "=", CONT>> >>,
   << <<"AUTH.CLASS", "=", "A", CONT>>, <<"B", "C", "D", "E", CONT>>, <<"F">> >>,
   << <<CONT>>, <<"*", "DEV_MODE_LPA", "=", "OFF">>, <<>>, <<"AUTH.CLASS", "=", CONT>>, <<CONT>>, <<"*", "ZOWE">>,
      <<"DEV_MODE_LPA", "=", "O", CONT>>, <<"N", "1", "2", "3">> >>}

Req(f, known, right, level, access, class, valid) ==
  [fc |-> f, known |-> known, right |-> right, level |-> level, access |-> access, class |-> class, valid |-> valid]

MCRequests ==
  {Req("password", TRUE, TRUE, 0, 0, "", TRUE), Req("reset", TRUE, TRUE, 0, 0, "", TRUE), Req("user", FALSE, TRUE, 0, 0, "", TRUE), Req("reset", TRUE, FALSE, 0, 0, "", TRUE)}
    \cup {Req(f, TRUE, r, 0, 0, "", TRUE) : f \in {"token", "verify", "ticket"}, r \in BOOLEAN}
    \cup {Req("entity", TRUE, TRUE, l, 2, "ZOWE", TRUE) : l \in 1..2}
    \cup {Req("entity", FALSE, TRUE, 2, 2, "ZOWE", TRUE), Req("access", TRUE, TRUE, 1, 0, "", TRUE)}
    \cup {Req(f, TRUE, TRUE, 0, 0, "", TRUE) : f \in {"copy", "nwm"}}
    \cup {Req(f, TRUE, TRUE, 0, 0, "", FALSE) : f \in {"nwm", "ticket", "reset"}}
=============================================================================
