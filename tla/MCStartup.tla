----------------------------- MODULE MCStartup ------------------------------
(* Files of up to two lines of every kind, and of three and four lines of   *)
(* which some are long or say nothing, for tables of three routes over      *)
(* nested and equal prefixes; every path of up to three pieces.             *)
EXTENDS Startup

To(prefix, port) == Text("route", Route(prefix, <<"app">>, port))
Blank == Text("blank", <<>>)
Comment == Text("comment", <<>>)
Junk == Text("junk", <<>>)

Whole(text) == Line(text, <<text>>)
Lines == {
    Whole(To(<<"/">>, 3000)), Whole(To(<<"/", "a">>, 3001)),
    Whole(To(<<"/", "a", "b">>, 3002)), Whole(To(<<"/", "a">>, 3003)),
    Whole(Blank), Whole(Comment), Whole(Junk),
    Line(To(<<"/", "b">>, 3004), <<To(<<"/", "b">>, 3004), Blank>>),
    Line(To(<<"/", "b">>, 3005), <<To(<<"/", "b">>, 300), Junk>>),
    Line(Comment, <<Comment, To(<<"/", "a">>, 80)>>)}

RouteLines == {ln \in Lines : Len(ln.chunks) = 1 /\ ln.says.kind = "route"}
MCFiles == UNION {[1 .. n -> Lines] : n \in 0 .. 2}
            \cup [1 .. 3 -> RouteLines \cup {Whole(Junk), Line(Comment, <<Comment, To(<<"/", "a">>, 80)>>)}]
            \cup [1 .. 4 -> RouteLines \cup {Whole(Comment)}]
RoutesIn(f) == UNION {{f[n].chunks[c].route :
                 c \in {d \in DOMAIN f[n].chunks : f[n].chunks[d].kind = "route"}} : n \in DOMAIN f}
SomeRoutes == UNION {RoutesIn(f) : f \in [1 .. 1 -> Lines]}
MCTables == UNION {[1 .. n -> SomeRoutes] : n \in 0 .. MAX_ROUTES}
MCPaths == UNION {[1 .. n -> {"/", "a", "b"}] : n \in 0 .. 3}

=============================================================================
