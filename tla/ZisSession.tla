----------------------------- MODULE ZisSession -----------------------------
(***************************************************************************)
(* A session of the cross-memory server's address space: what main and run *)
(* of c/zis/server.c do before the server is ready, and the parameters of  *)
(* c/zis/parm.c.                                                           *)
(*                                                                         *)
(* The parameters come from the PARM of the JCL and then from the PARMLIB  *)
(* member, one record at a time.  A text is a sequence of tokens, already  *)
(* trimmed; the tokens that parm.c looks for are "=" (the end of a name),  *)
(* "*" and "//*" (a comment) and CONT (the backslash of a continuation).   *)
(***************************************************************************)
EXTENDS Integers, SequencesExt

CONSTANTS
  Jcls,         \* PARM fields: sequences of texts, split at the commas
  Members,      \* PARMLIB members: sequences of records, which are texts
  MaxRecord,    \* sizeof(currRecord): the longest text of a continuation
  MaxSessions   \* bound: starts of the server

CONT == "\\"
DEV_MODE_LPA == <<"DEV_MODE_LPA">>     \* ZIS_PARM_DEV_MODE_LPA

ASSUME ZisSessionAssumption ==
  /\ MaxSessions \in Nat /\ MaxRecord \in Nat
  /\ \A t \in UNION {Range(m) : m \in Members \cup Jcls} : t \in Seq(STRING)

VARIABLES
  phase,       \* what the server is doing
  session,     \* number of the current start
  parms,       \* context->parms: names and values, first to last
  read,        \* ghost: the JCL and the member the parameters were read from
  memberLost   \* ghost: the member did not fit into the read buffer twice

sessionVars == <<phase, session, parms, read, memberLost>>

NothingRead == [jcl |-> <<>>, member |-> <<>>]

SessionInit ==
  phase = "down" /\ session = 0 /\ parms = <<>> /\ read = NothingRead /\ memberLost = FALSE

-----------------------------------------------------------------------------
\* The text up to the first equal sign, and the rest; no sign, empty value.
equalSign(t) == {i \in DOMAIN t : t[i] = "="}
keyOf(t)     == IF equalSign(t) = {} THEN t ELSE SubSeq(t, 1, Min(equalSign(t)) - 1)
valueOf(t)   == IF equalSign(t) = {} THEN <<>> ELSE SubSeq(t, Min(equalSign(t)) + 1, Len(t))

findEntry(ps, k) == {i \in DOMAIN ps : ps[i].key = k}

\* A name that is there already keeps its place and gets the new value.
zisPutParmValue(ps, t) ==
  IF findEntry(ps, keyOf(t)) = {} THEN Append(ps, [key |-> keyOf(t), value |-> valueOf(t)])
  ELSE [ps EXCEPT ![CHOOSE i \in findEntry(ps, keyOf(t)) : TRUE].value = valueOf(t)]

zisMakeParmSet == <<[key |-> <<"TEST_ZIS_PARM">>, value |-> <<"available">>]>>

isGiven(ps, k) == findEntry(ps, k) # {}
zisGetParmValue(ps, k) == ps[CHOOSE i \in findEntry(ps, k) : TRUE].value

zisReadMainParms(ps, jcl) == FoldLeft(zisPutParmValue, ps, jcl)

isParmCommentedOut(t) == t # <<>> /\ Head(t) \in {"*", "//*"}


\* Comments are skipped if they are not part of a continuation.
skipsRecord(s, r) == s.pending = <<>> /\ isParmCommentedOut(r)

\* A record is joined to what the records before it left; after a backslash
\* more is expected, or else the whole text is one parameter.
handleParmRecord(s, r) ==
  IF ~s.ok \/ skipsRecord(s, r) THEN s
  ELSE IF Len(s.pending) + Len(r) + 1 > MaxRecord THEN [s EXCEPT !.ok = FALSE]
  ELSE IF r # <<>> /\ Last(r) = CONT THEN [s EXCEPT !.pending = @ \o Front(r)]
  ELSE [ok |-> TRUE, pending |-> <<>>, parms |-> zisPutParmValue(s.parms, s.pending \o r)]

iterateMember(ps, member) ==
  FoldLeft(handleParmRecord, [ok |-> TRUE, pending |-> <<>>, parms |-> ps], member)

\* zisReadParmlib makes its buffer larger once; a member that has grown again
\* meanwhile leaves no buffer and no error, and the records are looked for in
\* low storage, where no parameter is.
zisReadParmlib(ps, member, grownTwice) == iterateMember(ps, IF grownTwice THEN <<>> ELSE member)

zisIsLPADevModeOn == isGiven(parms, DEV_MODE_LPA) /\ zisGetParmValue(parms, DEV_MODE_LPA) = <<"ON">>

-----------------------------------------------------------------------------
down == phase = "down" /\ session < MaxSessions

\* run: initContext, loadConfig, initCoreServer and registerCoreServices come
\* before the main loop; when one of them fails, as loadConfig does for a
\* continuation that is too long, the server ends.
startFails ==
  /\ down /\ session' = session + 1
  /\ UNCHANGED <<phase, parms, read, memberLost>>

\* run, with loadConfig reading the PARM and then the member.
run ==
  /\ down /\ session' = session + 1
  /\ \E jcl \in Jcls, member \in Members, twice \in BOOLEAN :
       LET got == zisReadParmlib(zisReadMainParms(zisMakeParmSet, jcl), member, twice)
       IN  /\ read' = [jcl |-> jcl, member |-> member] /\ memberLost' = twice
           /\ got.ok /\ phase' = "initServer" /\ parms' = got.parms

\* The context is cleaned, and the address space ends.
cleanContext ==
  phase' = "down" /\ parms' = <<>> /\ read' = NothingRead /\ memberLost' = FALSE /\ UNCHANGED session

-----------------------------------------------------------------------------
\* What the JCL and the member say, without reference to how they are read:
\* a parameter starts behind the end of another one or behind a comment, and
\* the last text for a name counts.  A record that is only a backslash continues
\* a parameter, but does not begin one: a comment behind it is left out, though
\* handleParmRecord says that it skips only comments outside a continuation.
endsParm(m, i)   == ~(m[i] # <<>> /\ Last(m[i]) = CONT)
startsParm(m)    ==
  LET starts[i \in DOMAIN m] == i = 1 \/ endsParm(m, i - 1) \/ (starts[i - 1] /\ (isParmCommentedOut(m[i - 1]) \/ m[i - 1] = <<CONT>>))
  IN  starts
joined(m, i, j)  == FlattenSeq([k \in 1..(j - i + 1) |-> IF i + k - 1 < j THEN Front(m[i + k - 1]) ELSE m[j]])
texts(m) ==
  {[at |-> p[1], text |-> joined(m, p[1], p[2])] :
     p \in {q \in (DOMAIN m) \X (DOMAIN m) :
        /\ q[1] <= q[2] /\ startsParm(m)[q[1]] /\ endsParm(m, q[2])
        /\ \A k \in (q[1] + 1)..q[2] : ~startsParm(m)[k]
        /\ ~isParmCommentedOut(m[q[1]])}}
written(jcl, m, k) ==
  LET inMember == {x \in texts(m) : keyOf(x.text) = k}
      inJcl    == {i \in DOMAIN jcl : keyOf(jcl[i]) = k}
  IN  IF inMember # {} THEN {valueOf(x.text) : x \in {y \in inMember : \A z \in inMember : z.at <= y.at}}
      ELSE IF inJcl # {} THEN {valueOf(jcl[Max(inJcl)])} ELSE {}

=============================================================================
