----------------------------- MODULE MCOutward ------------------------------
(* Small instances of Outward: a speaker p1, two sessions that may have    *)
(* one title and start, two events of the service, and for each mix of     *)
(* requests one or two invocations.                                        *)
EXTENDS Outward, TLC

CONSTANTS d1, d2, c1, c2, c3, p1, s1, s2, u1, u2

\* What is asked for, by how many invocations it is drained, which items the
\* programme has at first and whether there is a connection.
Mix(drains, k, items, connected) ==
  [crew |-> drains, kind |-> (c1 :> k[1]) @@ (c2 :> k[2]) @@ (c3 :> k[3]),
   items |-> items, connected |-> connected]

Mixes == {
  Mix({d1, d2}, <<"create", "update", None>>,          {},   FALSE),
  Mix({d1, d2}, <<"create", "update", "update">>,      {},   FALSE),
  Mix({d1},     <<"publish", "publish", "edit">>,      {s1, s2}, TRUE),
  Mix({d1, d2}, <<"publish", "publish", None>>,        {p1}, TRUE),
  Mix({d1, d2}, <<"publish", "verify", None>>,         {s1}, TRUE),
  Mix({d1, d2}, <<"publish", "save", None>>,           {s1}, FALSE),
  Mix({d1},     <<"publish", "verify", "save">>,       {s1}, FALSE),
  Mix({d1},     <<"publish", "save", None>>,           {s1}, TRUE),
  Mix({d1},     <<"verify", "save", None>>,            {s1}, TRUE),
  Mix({d1},     <<"publish", "save", "edit">>,         {s1}, FALSE),
  Mix({d1},     <<"publish", "publish", "publish">>,   {},   FALSE)}

\* Two clients save a connection at once.
Crossings == {Mix({d1}, <<"publish", "save", "save">>, {s1}, FALSE)}

Faces == (p1 :> {1}) @@ (s1 :> {1, 2}) @@ (s2 :> {1})

Start(mixes) ==
  \E m \in mixes :
    /\ kind = m.kind /\ crew = m.crew
    /\ source = [i \in Item |-> IF i \in m.items THEN 1 ELSE None]
    /\ IF m.connected THEN conn # None /\ conn.url = u1 ELSE conn = None
    /\ kind[c3] = "update" => author # None
SmallInit == Init /\ Start(Mixes)
SmallSpec == SmallInit /\ [][Next]_vars /\ Fairness

CrossedInit == Init /\ Start(Crossings)
CrossedSpec == CrossedInit /\ [][Next]_vars
=============================================================================
