----------------------------- MODULE MCSecMgmt ------------------------------
(* Small instances of SecMgmt. *)
EXTENDS SecMgmt

MCUsers == {21, 22, 23}
MCUserTypes == <<{21, 22}, {23}>>

MCList(r1, r2, r3) == [u \in MCUsers |-> CASE u = 21 -> r1 [] u = 22 -> r2 [] u = 23 -> r3]

\* Profiles 1 to 4, of which 2 to 4 have the prefix and 3 is not defined yet, and
\* groups 11 to 13; the list of 11 does not fit in the first buffer.
MCDatabases ==
  {[exists |-> {1, 2, 4, 11, 12, 13},
    acl |-> [r \in {1, 2, 3, 4, 11, 12, 13} |->
       CASE r = 1  -> MCList({"READ"}, {}, {})
         [] r = 11 -> MCList({"USE"}, {"USE"}, {})
         [] OTHER  -> MCList({}, {}, {})]]}

MCReq(mgmt, kind, res, user, access) ==
  [mgmt |-> mgmt, kind |-> kind, res |-> res, user |-> user, access |-> access,
   class |-> "default", body |-> "good", dryRun |-> FALSE]

\* The requests that are passed on.
MCPassed ==
  {MCReq("classes", "define", 3, NoUser, "none"), MCReq("classes", "delete", 2, NoUser, "none"),
   MCReq("classes", "delete", 4, NoUser, "none"),
   MCReq("classes", "give", 1, 21, "ALTER"), MCReq("classes", "give", 1, 22, "READ"),
   MCReq("classes", "give", 1, 21, "READ"),
   MCReq("classes", "revoke", 1, 21, "none"), MCReq("classes", "list", 1, NoUser, "none"),
   MCReq("groups", "define", 11, NoUser, "none"), MCReq("groups", "delete", 11, NoUser, "none"),
   MCReq("groups", "give", 11, 23, "JOIN"), MCReq("groups", "revoke", 11, 21, "none"),
   MCReq("groups", "list", 11, NoUser, "none"), MCReq("access", "access", 11, NoUser, "none"),
   MCReq("access", "access", 11, 21, "none"), MCReq("users", "page", None, NoUser, "none"),
   MCReq("classes", "page", None, NoUser, "none"), MCReq("groups", "page", None, NoUser, "none"),
   MCReq("groups", "delete", 12, NoUser, "none")}

\* One for each way to be refused, and those that change nothing.
MCOthers ==
  {[MCReq("classes", "give", 1, 21, "READ") EXCEPT !.dryRun = TRUE],
   [MCReq("groups", "delete", 11, NoUser, "none") EXCEPT !.dryRun = TRUE],
   [MCReq("classes", "define", 4, NoUser, "none") EXCEPT !.class = "other"],
   MCReq("classes", "list", 1, 21, "none"), MCReq("classes", "page", 1, NoUser, "none"),
   MCReq("classes", "delete", None, NoUser, "none"), MCReq("classes", "give", 1, NoUser, "READ"),
   [MCReq("classes", "give", 1, 21, "READ") EXCEPT !.body = "bad"],
   [MCReq("groups", "define", 11, NoUser, "none") EXCEPT !.body = "bad"],
   MCReq("groups", "list", 11, 21, "none"), MCReq("access", "access", None, NoUser, "none"),
   [MCReq("groups", "page", None, NoUser, "none") EXCEPT !.body = "bad"],
   MCReq("groups", "delete", None, NoUser, "none")}

MCRequests == MCPassed \cup MCOthers
=============================================================================
