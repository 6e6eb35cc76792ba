------------------------------- MODULE MCOpen -------------------------------
(* A tree / -> d -> s, a target directory w -> v beside d, two files, two links. *)
EXTENDS NameiExtOpenRef

MCDirs == {"/", "d", "s", "w", "v"}
MCFiles == {"f", "new"}
MCLinks == {"l", "k"}
MCNames == {"a", "b", "c"}
MCParentOf == [d \in MCDirs |-> CASE d = "s" -> "d" [] d = "v" -> "w" [] OTHER -> "/"]

P(comps, slash) == [abs |-> FALSE, comps |-> comps, slash |-> slash]

\* l ends in a name the policy may select; k, absolute, goes on behind it.
MCBody == [x \in MCLinks |-> IF x = "l" THEN P(<<"a">>, FALSE)
                             ELSE [abs |-> TRUE, comps |-> <<"c", "a", "b">>, slash |-> TRUE]]

Dir(a, b, c) == [n \in MCNames |-> CASE n = "a" -> a [] n = "b" -> b [] n = "c" -> c]

MCLayouts ==
    {[d \in MCDirs |-> CASE d = "/" -> Dir("w", "f", "d")
                         [] d = "d" -> x
                         [] d \in {"s", "v"} -> Dir("f", Nil, "l")
                         [] d = "w" -> Dir("v", "l", Nil)] :
        x \in {Dir("s", "l", "f"), Dir("f", Nil, "l"), Dir(Nil, "k", "l")}}

Pass == [act |-> "pass", to |-> Nil]
Some == {Pass, [act |-> "hide", to |-> Nil], [act |-> "invalid", to |-> Nil],
         [act |-> "redirect", to |-> "b"],
         [act |-> "select", to |-> "w"], [act |-> "select", to |-> "f"],
         [act |-> "select", to |-> Nil]}
Two(x, y) == [n \in MCNames |-> CASE n = "a" -> x [] n = "b" -> y [] n = "c" -> Pass]
MCPolicies ==
    {Two(x, Pass) : x \in Some}
        \cup {Two([act |-> "select", to |-> "w"], y) :
                y \in {[act |-> "redirect", to |-> "c"], [act |-> "select", to |-> "s"]}}

MCPaths == {P(<<"a">>, FALSE), P(<<"a">>, TRUE), P(<<"b">>, FALSE), P(<<"b">>, TRUE),
            P(<<"c", "b">>, FALSE), P(<<"b", "c", "a">>, FALSE), P(<<"a", "..", "..", "c">>, TRUE),
            [abs |-> TRUE, comps |-> <<"c", "b">>, slash |-> FALSE],
            [abs |-> TRUE, comps |-> <<>>, slash |-> FALSE]}

Lookup == [kind : {"lookup"}, path : MCPaths, creat : {FALSE}, excl : {FALSE},
           directory : {FALSE}, follow : BOOLEAN, beneath : BOOLEAN]
Open == {c \in [kind : {"open"}, path : MCPaths, creat : BOOLEAN, excl : BOOLEAN,
                directory : BOOLEAN, follow : BOOLEAN, beneath : BOOLEAN] :
            /\ c.excl => c.creat /\ ~c.follow
            /\ ~(c.creat /\ c.directory)
            /\ c.beneath => c.follow /\ ~c.directory}
MCCalls == Lookup \cup Open
=============================================================================
